---- MODULE Spec2Model ----
(***************************************************************************)
(* Model of js-zrim-netfilter-manager: the jobs that compile a policy      *)
(* into an install list and an uninstall list of iptables / ipset          *)
(* commands (lib/jobs), the promise workflow that runs a job's steps, and  *)
(* the application of a returned list to the packet filter.                *)
(*                                                                         *)
(* A command {type, value} is kept as a record of the fields of its value  *)
(* string: the operation (-N -A -I -D -F -X, create add destroy flush),    *)
(* the chain or set it names, the insert position, the match text as a     *)
(* tuple of its words and the jump target.                                 *)
(***************************************************************************)
EXTENDS Integers, Sequences, FiniteSets, TLC

VARIABLES
  job,        \* the job module the instance was created from
  context,    \* the execution context handed to execute()
  steps,      \* the step list execute() built
  stepIndex,  \* how many of the steps have been called
  promise,    \* the promise execute() returned
  queries,    \* queries sent to the blacklist database in this execution
  fw,         \* the packet filter of the host
  fw0,        \* the packet filter before the first script was applied
  clean,      \* whether fw0 held none of the chains, sets and links of the first script
  applied,    \* the actions whose scripts were applied, in order
  workflow    \* the promise chain of the command line: its step and how it stands

vars == <<job, context, steps, stepIndex, promise, queries, fw, fw0, clean, applied, workflow>>

-----------------------------------------------------------------------------
(* Bounds of the model *)

MaxInterfaces == 2
MaxTrusted == 2
MaxItems == 2
MaxEntries == 2
MaxApplied == 3
MaxCalls == 2

-----------------------------------------------------------------------------
(* Generic helpers *)

SeqsUpTo(S, n) == UNION {[1..k -> S] : k \in 0..n}

RECURSIVE Flatten(_)
Flatten(ss) == IF ss = <<>> THEN <<>> ELSE Head(ss) \o Flatten(Tail(ss))

Has(r, f) == f \in DOMAIN r

-----------------------------------------------------------------------------
(* Commands *)

NoMatch == <<>>

\* _asIptables4Command(`<op> <chain> [pos] <match> -j <target>`)
_asIptables4Command(op, chain, pos, match, target) ==
  [type |-> "iptables-4", op |-> op, name |-> chain, pos |-> pos,
   match |-> match, target |-> target]

\* _asIpSetCommand(`[-!] <op> <set> <arg>`)
_asIpSetCommand(flag, op, set, arg) ==
  [type |-> "ipset", op |-> op, name |-> set, pos |-> 0,
   match |-> <<flag, arg>>, target |-> ""]

-----------------------------------------------------------------------------
(* prepare-netfilter: the five generators.  Each returns the two lists it  *)
(* builds, installCommands and unInstallCommands, in push order.           *)

AppendRule(m, target, chain) == _asIptables4Command("-A", chain, 0, m, target)

\* the rules of one declared network of an interface (loopback exceptions)
VitalLoopbackRules(chainName, interfaceNetwork) ==
  LET v == interfaceNetwork.value IN
  << AppendRule(<<"--in-interface", "lo", "-s", v, "-d", v>>, "ACCEPT", "IN_" \o chainName),
     AppendRule(<<"--in-interface", "lo", "-s", v, "-d", "127.0.0.0/8">>, "ACCEPT", "IN_" \o chainName),
     AppendRule(<<"--out-interface", "lo", "-s", v, "-d", v>>, "ACCEPT", "OUT_" \o chainName),
     AppendRule(<<"--out-interface", "lo", "-s", v, "-d", "127.0.0.0/8">>, "ACCEPT", "OUT_" \o chainName) >>

\* the rules pushed for one primary interface
VitalInterfaceRules(chainName, primaryInterface) ==
  LET n  == primaryInterface.name
      IN_ == "IN_" \o chainName
      OUT_ == "OUT_" \o chainName
  IN
  << \* DHCP
     AppendRule(<<"--in-interface", n, "-p", "udp", "--dport", "67:68", "--sport", "67:68">>, "ACCEPT", IN_),
     AppendRule(<<"--out-interface", n, "-p", "udp", "--dport", "67:68", "--sport", "67:68">>, "ACCEPT", OUT_),
     \* DNS client, UDP then TCP
     AppendRule(<<"--out-interface", n, "-p", "udp", "--sport", "1024:65535", "--dport", "53", "-m", "state", "--state", "NEW,ESTABLISHED,RELATED">>, "ACCEPT", OUT_),
     AppendRule(<<"--in-interface", n, "-p", "udp", "--sport", "53", "--dport", "1024:65535", "-m", "state", "--state", "ESTABLISHED,RELATED">>, "ACCEPT", IN_),
     AppendRule(<<"--out-interface", n, "-p", "tcp", "--sport", "1024:65535", "--dport", "53", "-m", "state", "--state", "NEW,ESTABLISHED,RELATED">>, "ACCEPT", OUT_),
     AppendRule(<<"--in-interface", n, "-p", "tcp", "--sport", "53", "--dport", "1024:65535", "-m", "state", "--state", "ESTABLISHED,RELATED">>, "ACCEPT", IN_),
     \* ICMP
     AppendRule(<<"-p", "icmp", "--in-interface", n, "-d", "0.0.0.0/0", "-m", "state", "--state", "NEW,ESTABLISHED,RELATED">>, "ACCEPT", OUT_),
     AppendRule(<<"-p", "icmp", "--out-interface", n, "-s", "0.0.0.0/0", "-m", "state", "--state", "ESTABLISHED,RELATED">>, "ACCEPT", IN_),
     AppendRule(<<"-p", "icmp", "--icmp-type", "8", "--in-interface", n, "-s", "0.0.0.0/0", "-m", "state", "--state", "NEW,ESTABLISHED,RELATED">>, "ACCEPT", IN_),
     AppendRule(<<"-p", "icmp", "--out-interface", n, "-d", "0.0.0.0/0", "-m", "state", "--state", "ESTABLISHED,RELATED">>, "ACCEPT", OUT_),
     \* NTP
     AppendRule(<<"--out-interface", n, "-p", "udp", "--sport", "1024:65535", "--dport", "123">>, "ACCEPT", OUT_),
     AppendRule(<<"--in-interface", n, "-p", "udp", "--sport", "123", "--dport", "1024:65535", "-m", "state", "--state", "ESTABLISHED,RELATED">>, "ACCEPT", IN_),
     \* root access
     AppendRule(<<"--out-interface", n, "-m", "owner", "--uid-owner", "0">>, "ACCEPT", OUT_),
     \* accept known packets
     AppendRule(<<"--in-interface", n, "-m", "state", "--state", "ESTABLISHED,RELATED">>, "ACCEPT", IN_) >>
  \o Flatten([i \in 1..Len(primaryInterface.networks) |->
                VitalLoopbackRules(chainName, primaryInterface.networks[i])])

\* faulty variant: the chain pair is created once per primary interface
generateVitalAccessChain_PairPerInterface(ctx) ==
  LET chainName == "vital_access_0"
      primaryInterfaces == ctx.jobConfiguration.network.primaryInterfaces
  IN
  [ install |->
      Flatten([i \in 1..Len(primaryInterfaces) |->
                 << _asIptables4Command("-N", "IN_" \o chainName, 0, NoMatch, ""),
                    _asIptables4Command("-N", "OUT_" \o chainName, 0, NoMatch, "") >>
                 \o VitalInterfaceRules(chainName, primaryInterfaces[i])])
      \o << AppendRule(<<"!", "--in-interface", "lo", "-d", "127.0.0.0/8">>, "REJECT", "IN_" \o chainName),
            AppendRule(<<"--out-interface", "lo", "-d", "127.0.0.0/8">>, "ACCEPT", "OUT_" \o chainName),
            AppendRule(NoMatch, "RETURN", "IN_" \o chainName),
            AppendRule(NoMatch, "RETURN", "OUT_" \o chainName) >>,
    unInstall |->
      << _asIptables4Command("-F", "IN_" \o chainName, 0, NoMatch, ""),
         _asIptables4Command("-X", "IN_" \o chainName, 0, NoMatch, ""),
         _asIptables4Command("-F", "OUT_" \o chainName, 0, NoMatch, ""),
         _asIptables4Command("-X", "OUT_" \o chainName, 0, NoMatch, "") >> ]

generateVitalAccessChain(ctx) ==
  LET chainName == "vital_access_0"
      primaryInterfaces == ctx.jobConfiguration.network.primaryInterfaces
  IN
  [ install |->
      << _asIptables4Command("-N", "IN_" \o chainName, 0, NoMatch, ""),
         _asIptables4Command("-N", "OUT_" \o chainName, 0, NoMatch, "") >>
      \o Flatten([i \in 1..Len(primaryInterfaces) |->
                    VitalInterfaceRules(chainName, primaryInterfaces[i])])
      \o << AppendRule(<<"!", "--in-interface", "lo", "-d", "127.0.0.0/8">>, "REJECT", "IN_" \o chainName),
            AppendRule(<<"--out-interface", "lo", "-d", "127.0.0.0/8">>, "ACCEPT", "OUT_" \o chainName),
            AppendRule(NoMatch, "RETURN", "IN_" \o chainName),
            AppendRule(NoMatch, "RETURN", "OUT_" \o chainName) >>,
    unInstall |->
      << _asIptables4Command("-F", "IN_" \o chainName, 0, NoMatch, ""),
         _asIptables4Command("-X", "IN_" \o chainName, 0, NoMatch, ""),
         _asIptables4Command("-F", "OUT_" \o chainName, 0, NoMatch, ""),
         _asIptables4Command("-X", "OUT_" \o chainName, 0, NoMatch, "") >> ]

\* faulty variant: the uninstall list leaves the set block_net behind
generateBlockNetworkChain_KeepsSet(ctx) ==
  LET chainName == "block_access_0" IN
  [ install |->
      << _asIptables4Command("-N", "IN_" \o chainName, 0, NoMatch, ""),
         _asIpSetCommand("-!", "create", "block_net", "hash:net"),
         AppendRule(NoMatch, "DROP", "IN_" \o chainName) >>,
    unInstall |->
      << _asIptables4Command("-F", "IN_" \o chainName, 0, NoMatch, ""),
         _asIptables4Command("-X", "IN_" \o chainName, 0, NoMatch, "") >> ]

generateBlockNetworkChain(ctx) ==
  LET chainName == "block_access_0" IN
  [ install |->
      << _asIptables4Command("-N", "IN_" \o chainName, 0, NoMatch, ""),
         _asIpSetCommand("-!", "create", "block_net", "hash:net"),
         AppendRule(NoMatch, "DROP", "IN_" \o chainName) >>,
    unInstall |->
      << _asIptables4Command("-F", "IN_" \o chainName, 0, NoMatch, ""),
         _asIptables4Command("-X", "IN_" \o chainName, 0, NoMatch, ""),
         _asIpSetCommand("-!", "destroy", "block_net", "") >> ]

\* faulty variant: the catch-all of the services chain is appended before the chain exists
generateServiceAccessChain_ReturnFirst(ctx) ==
  LET chainName == "services_access_0" IN
  [ install |->
      << AppendRule(NoMatch, "RETURN", "IN_" \o chainName),
         _asIptables4Command("-N", "IN_" \o chainName, 0, NoMatch, ""),
         AppendRule(NoMatch, "RETURN", "OUT_" \o chainName),
         _asIptables4Command("-N", "OUT_" \o chainName, 0, NoMatch, "") >>,
    unInstall |->
      << _asIptables4Command("-F", "IN_" \o chainName, 0, NoMatch, ""),
         _asIptables4Command("-X", "IN_" \o chainName, 0, NoMatch, ""),
         _asIptables4Command("-F", "OUT_" \o chainName, 0, NoMatch, ""),
         _asIptables4Command("-X", "OUT_" \o chainName, 0, NoMatch, "") >> ]

\* faulty variant: the services chains are created under another token
generateServiceAccessChain_OtherToken(ctx) ==
  LET chainName == "service_access_0" IN
  [ install |->
      << _asIptables4Command("-N", "IN_" \o chainName, 0, NoMatch, ""),
         AppendRule(NoMatch, "RETURN", "IN_" \o chainName),
         _asIptables4Command("-N", "OUT_" \o chainName, 0, NoMatch, ""),
         AppendRule(NoMatch, "RETURN", "OUT_" \o chainName) >>,
    unInstall |->
      << _asIptables4Command("-F", "IN_" \o chainName, 0, NoMatch, ""),
         _asIptables4Command("-X", "IN_" \o chainName, 0, NoMatch, ""),
         _asIptables4Command("-F", "OUT_" \o chainName, 0, NoMatch, ""),
         _asIptables4Command("-X", "OUT_" \o chainName, 0, NoMatch, "") >> ]

generateServiceAccessChain(ctx) ==
  LET chainName == "services_access_0" IN
  [ install |->
      << _asIptables4Command("-N", "IN_" \o chainName, 0, NoMatch, ""),
         AppendRule(NoMatch, "RETURN", "IN_" \o chainName),
         _asIptables4Command("-N", "OUT_" \o chainName, 0, NoMatch, ""),
         AppendRule(NoMatch, "RETURN", "OUT_" \o chainName) >>,
    unInstall |->
      << _asIptables4Command("-F", "IN_" \o chainName, 0, NoMatch, ""),
         _asIptables4Command("-X", "IN_" \o chainName, 0, NoMatch, ""),
         _asIptables4Command("-F", "OUT_" \o chainName, 0, NoMatch, ""),
         _asIptables4Command("-X", "OUT_" \o chainName, 0, NoMatch, "") >> ]

\* _.get(context, 'configuration.global.network.trustedItems', [])
GlobalTrustedNetworks(ctx) ==
  IF Has(ctx.configuration, "global") /\ Has(ctx.configuration.global, "network")
     /\ Has(ctx.configuration.global.network, "trustedItems")
  THEN ctx.configuration.global.network.trustedItems ELSE <<>>

\* _.get(context, 'jobConfiguration.network.trustedItems', [])
JobTrustedNetworks(ctx) ==
  IF Has(ctx.jobConfiguration, "network") /\ Has(ctx.jobConfiguration.network, "trustedItems")
  THEN ctx.jobConfiguration.network.trustedItems ELSE <<>>

\* faulty variant: the job's own networks come before the global ones
TrustedNetworks_JobFirst(ctx) == JobTrustedNetworks(ctx) \o GlobalTrustedNetworks(ctx)

\* _.concat([], globalTrustedNetworks, jobTrustedNetworks)
TrustedNetworks(ctx) == GlobalTrustedNetworks(ctx) \o JobTrustedNetworks(ctx)

\* faulty variant: the uninstall list destroys trusted_net before it flushes the chains
generateTrustedNetworkChain_DestroyFirst(ctx) ==
  LET chainName == "trusted_access_0"
      trustedNetworks == TrustedNetworks(ctx)
  IN
  [ install |->
      << _asIpSetCommand("-!", "create", "trusted_net", "hash:net") >>
      \o [i \in 1..Len(trustedNetworks) |->
            _asIpSetCommand("-!", "add", "trusted_net", trustedNetworks[i].value)]
      \o << _asIptables4Command("-N", "IN_" \o chainName, 0, NoMatch, ""),
            AppendRule(<<"-m", "set", "--match-set", "trusted_net", "src">>, "ACCEPT", "IN_" \o chainName),
            AppendRule(NoMatch, "RETURN", "IN_" \o chainName),
            _asIptables4Command("-N", "OUT_" \o chainName, 0, NoMatch, ""),
            AppendRule(<<"-m", "set", "--match-set", "trusted_net", "dst">>, "ACCEPT", "OUT_" \o chainName),
            AppendRule(NoMatch, "RETURN", "OUT_" \o chainName) >>,
    unInstall |->
      << _asIpSetCommand("-!", "destroy", "trusted_net", ""),
         _asIptables4Command("-F", "IN_" \o chainName, 0, NoMatch, ""),
         _asIptables4Command("-X", "IN_" \o chainName, 0, NoMatch, ""),
         _asIptables4Command("-F", "OUT_" \o chainName, 0, NoMatch, ""),
         _asIptables4Command("-X", "OUT_" \o chainName, 0, NoMatch, "") >> ]

generateTrustedNetworkChain(ctx) ==
  LET chainName == "trusted_access_0"
      trustedNetworks == TrustedNetworks(ctx)
  IN
  [ install |->
      << _asIpSetCommand("-!", "create", "trusted_net", "hash:net") >>
      \o [i \in 1..Len(trustedNetworks) |->
            _asIpSetCommand("-!", "add", "trusted_net", trustedNetworks[i].value)]
      \o << _asIptables4Command("-N", "IN_" \o chainName, 0, NoMatch, ""),
            AppendRule(<<"-m", "set", "--match-set", "trusted_net", "src">>, "ACCEPT", "IN_" \o chainName),
            AppendRule(NoMatch, "RETURN", "IN_" \o chainName),
            _asIptables4Command("-N", "OUT_" \o chainName, 0, NoMatch, ""),
            AppendRule(<<"-m", "set", "--match-set", "trusted_net", "dst">>, "ACCEPT", "OUT_" \o chainName),
            AppendRule(NoMatch, "RETURN", "OUT_" \o chainName) >>,
    unInstall |->
      << _asIptables4Command("-F", "IN_" \o chainName, 0, NoMatch, ""),
         _asIptables4Command("-X", "IN_" \o chainName, 0, NoMatch, ""),
         _asIptables4Command("-F", "OUT_" \o chainName, 0, NoMatch, ""),
         _asIptables4Command("-X", "OUT_" \o chainName, 0, NoMatch, ""),
         _asIpSetCommand("-!", "destroy", "trusted_net", "") >> ]

\* the pair pushed for one primary interface: -A INPUT / -D INPUT default action
RootInterfaceRule(op, primaryInterface) ==
  _asIptables4Command(op, "INPUT", 0, <<"--in-interface", primaryInterface.name>>,
                      primaryInterface.rules.input.defaultAction)

BlockSetMatch == <<"-m", "set", "--match-set", "block_net", "src">>

\* faulty variant: the removals are pushed in the reverse of the install order
generateRootAccessChains_Reversed(ctx) ==
  LET primaryInterfaces == ctx.jobConfiguration.network.primaryInterfaces IN
  [ install |->
      << _asIptables4Command("-I", "INPUT", 1, NoMatch, "IN_trusted_access_0"),
         _asIptables4Command("-I", "INPUT", 2, NoMatch, "IN_vital_access_0"),
         _asIptables4Command("-I", "INPUT", 3, BlockSetMatch, "IN_block_access_0"),
         _asIptables4Command("-I", "INPUT", 4, NoMatch, "IN_services_access_0") >>
      \o [i \in 1..Len(primaryInterfaces) |-> RootInterfaceRule("-A", primaryInterfaces[i])]
      \o << _asIptables4Command("-I", "OUTPUT", 1, NoMatch, "OUT_trusted_access_0"),
            _asIptables4Command("-I", "OUTPUT", 2, NoMatch, "OUT_vital_access_0"),
            _asIptables4Command("-I", "OUTPUT", 3, NoMatch, "OUT_services_access_0") >>,
    unInstall |->
      << _asIptables4Command("-D", "OUTPUT", 0, NoMatch, "OUT_services_access_0"),
         _asIptables4Command("-D", "OUTPUT", 0, NoMatch, "OUT_vital_access_0"),
         _asIptables4Command("-D", "OUTPUT", 0, NoMatch, "OUT_trusted_access_0") >>
      \o [i \in 1..Len(primaryInterfaces) |->
            RootInterfaceRule("-D", primaryInterfaces[Len(primaryInterfaces) + 1 - i])]
      \o << _asIptables4Command("-D", "INPUT", 0, NoMatch, "IN_services_access_0"),
            _asIptables4Command("-D", "INPUT", 0, BlockSetMatch, "IN_block_access_0"),
            _asIptables4Command("-D", "INPUT", 0, NoMatch, "IN_vital_access_0"),
            _asIptables4Command("-D", "INPUT", 0, NoMatch, "IN_trusted_access_0") >> ]

\* faulty variant: the vital chain is wired into INPUT ahead of the trusted chain
generateRootAccessChains_VitalFirst(ctx) ==
  LET primaryInterfaces == ctx.jobConfiguration.network.primaryInterfaces IN
  [ install |->
      << _asIptables4Command("-I", "INPUT", 1, NoMatch, "IN_vital_access_0"),
         _asIptables4Command("-I", "INPUT", 2, NoMatch, "IN_trusted_access_0"),
         _asIptables4Command("-I", "INPUT", 3, BlockSetMatch, "IN_block_access_0"),
         _asIptables4Command("-I", "INPUT", 4, NoMatch, "IN_services_access_0") >>
      \o [i \in 1..Len(primaryInterfaces) |-> RootInterfaceRule("-A", primaryInterfaces[i])]
      \o << _asIptables4Command("-I", "OUTPUT", 1, NoMatch, "OUT_trusted_access_0"),
            _asIptables4Command("-I", "OUTPUT", 2, NoMatch, "OUT_vital_access_0"),
            _asIptables4Command("-I", "OUTPUT", 3, NoMatch, "OUT_services_access_0") >>,
    unInstall |->
      << _asIptables4Command("-D", "INPUT", 0, NoMatch, "IN_trusted_access_0"),
         _asIptables4Command("-D", "INPUT", 0, NoMatch, "IN_vital_access_0"),
         _asIptables4Command("-D", "INPUT", 0, BlockSetMatch, "IN_block_access_0"),
         _asIptables4Command("-D", "INPUT", 0, NoMatch, "IN_services_access_0") >>
      \o [i \in 1..Len(primaryInterfaces) |-> RootInterfaceRule("-D", primaryInterfaces[i])]
      \o << _asIptables4Command("-D", "OUTPUT", 0, NoMatch, "OUT_trusted_access_0"),
            _asIptables4Command("-D", "OUTPUT", 0, NoMatch, "OUT_vital_access_0"),
            _asIptables4Command("-D", "OUTPUT", 0, NoMatch, "OUT_services_access_0") >> ]

\* faulty variant: OUTPUT gets a block link as INPUT does
generateRootAccessChains_OutputBlock(ctx) ==
  LET primaryInterfaces == ctx.jobConfiguration.network.primaryInterfaces IN
  [ install |->
      << _asIptables4Command("-I", "INPUT", 1, NoMatch, "IN_trusted_access_0"),
         _asIptables4Command("-I", "INPUT", 2, NoMatch, "IN_vital_access_0"),
         _asIptables4Command("-I", "INPUT", 3, BlockSetMatch, "IN_block_access_0"),
         _asIptables4Command("-I", "INPUT", 4, NoMatch, "IN_services_access_0") >>
      \o [i \in 1..Len(primaryInterfaces) |-> RootInterfaceRule("-A", primaryInterfaces[i])]
      \o << _asIptables4Command("-I", "OUTPUT", 1, NoMatch, "OUT_trusted_access_0"),
            _asIptables4Command("-I", "OUTPUT", 2, NoMatch, "OUT_vital_access_0"),
            _asIptables4Command("-I", "OUTPUT", 3, BlockSetMatch, "OUT_block_access_0"),
            _asIptables4Command("-I", "OUTPUT", 4, NoMatch, "OUT_services_access_0") >>,
    unInstall |->
      << _asIptables4Command("-D", "INPUT", 0, NoMatch, "IN_trusted_access_0"),
         _asIptables4Command("-D", "INPUT", 0, NoMatch, "IN_vital_access_0"),
         _asIptables4Command("-D", "INPUT", 0, BlockSetMatch, "IN_block_access_0"),
         _asIptables4Command("-D", "INPUT", 0, NoMatch, "IN_services_access_0") >>
      \o [i \in 1..Len(primaryInterfaces) |-> RootInterfaceRule("-D", primaryInterfaces[i])]
      \o << _asIptables4Command("-D", "OUTPUT", 0, NoMatch, "OUT_trusted_access_0"),
            _asIptables4Command("-D", "OUTPUT", 0, NoMatch, "OUT_vital_access_0"),
            _asIptables4Command("-D", "OUTPUT", 0, NoMatch, "OUT_services_access_0") >> ]

generateRootAccessChains(ctx) ==
  LET primaryInterfaces == ctx.jobConfiguration.network.primaryInterfaces IN
  [ install |->
      << _asIptables4Command("-I", "INPUT", 1, NoMatch, "IN_trusted_access_0"),
         _asIptables4Command("-I", "INPUT", 2, NoMatch, "IN_vital_access_0"),
         _asIptables4Command("-I", "INPUT", 3, BlockSetMatch, "IN_block_access_0"),
         _asIptables4Command("-I", "INPUT", 4, NoMatch, "IN_services_access_0") >>
      \o [i \in 1..Len(primaryInterfaces) |-> RootInterfaceRule("-A", primaryInterfaces[i])]
      \o << _asIptables4Command("-I", "OUTPUT", 1, NoMatch, "OUT_trusted_access_0"),
            _asIptables4Command("-I", "OUTPUT", 2, NoMatch, "OUT_vital_access_0"),
            _asIptables4Command("-I", "OUTPUT", 3, NoMatch, "OUT_services_access_0") >>,
    unInstall |->
      << _asIptables4Command("-D", "INPUT", 0, NoMatch, "IN_trusted_access_0"),
         _asIptables4Command("-D", "INPUT", 0, NoMatch, "IN_vital_access_0"),
         _asIptables4Command("-D", "INPUT", 0, BlockSetMatch, "IN_block_access_0"),
         _asIptables4Command("-D", "INPUT", 0, NoMatch, "IN_services_access_0") >>
      \o [i \in 1..Len(primaryInterfaces) |-> RootInterfaceRule("-D", primaryInterfaces[i])]
      \o << _asIptables4Command("-D", "OUTPUT", 0, NoMatch, "OUT_trusted_access_0"),
            _asIptables4Command("-D", "OUTPUT", 0, NoMatch, "OUT_vital_access_0"),
            _asIptables4Command("-D", "OUTPUT", 0, NoMatch, "OUT_services_access_0") >> ]

-----------------------------------------------------------------------------
(* Values of a policy.  Every scalar is kept as the text the template      *)
(* literal prints for it; a missing key is a missing record field.         *)

Null == "<null>"

\* `${v}` for a value that may be null
Text(v) == IF v = Null THEN "null" ELSE v

\* `${item.f}` for a key that may be missing
TextOf(item, f) == IF Has(item, f) THEN Text(item[f]) ELSE "undefined"

\* _.isNil(item.f)
IsNil(item, f) == ~Has(item, f) \/ item[f] = Null

-----------------------------------------------------------------------------
(* generic-service job *)

\* GenericServiceJob.prototype._getServiceChainName
GenericServiceChainName == "genericServiceName"

\* context.configurationJob.chainName || this._getServiceChainName()
GenericChainName(ctx) ==
  IF Has(ctx.configurationJob, "chainName") /\ ctx.configurationJob.chainName # ""
  THEN ctx.configurationJob.chainName ELSE GenericServiceChainName

\* item.sourceNetworks || []
SourceNetworks(item) == IF IsNil(item, "sourceNetworks") THEN <<>> ELSE item.sourceNetworks

\* faulty variant: the source-agnostic rule is pushed for every item, sources or not
GenericItemRules_AlwaysOpen(chainName, item) ==
  LET destinationNetworkPart ==
        IF IsNil(item, "destinationNetwork") THEN <<>> ELSE <<"-d", item.destinationNetwork>>
      protocolPortNumberPart ==
        <<"-p", item.protocol, "--sport", "1024:65535", "--dport", item.portNumber>>
      sourceNetworks == SourceNetworks(item)
  IN << AppendRule(destinationNetworkPart \o protocolPortNumberPart, "ACCEPT", "IN_" \o chainName) >>
     \o [i \in 1..Len(sourceNetworks) |->
           AppendRule(<<"-s", sourceNetworks[i]>> \o destinationNetworkPart \o protocolPortNumberPart,
                      "ACCEPT", "IN_" \o chainName)]

\* the ACCEPT rules pushed for one network item
GenericItemRules(chainName, item) ==
  LET destinationNetworkPart ==
        IF IsNil(item, "destinationNetwork") THEN <<>> ELSE <<"-d", item.destinationNetwork>>
      protocolPortNumberPart ==
        <<"-p", item.protocol, "--sport", "1024:65535", "--dport", item.portNumber>>
      sourceNetworks == SourceNetworks(item)
  IN IF Len(sourceNetworks) = 0
     THEN << AppendRule(destinationNetworkPart \o protocolPortNumberPart, "ACCEPT", "IN_" \o chainName) >>
     ELSE [i \in 1..Len(sourceNetworks) |->
             AppendRule(<<"-s", sourceNetworks[i]>> \o destinationNetworkPart \o protocolPortNumberPart,
                        "ACCEPT", "IN_" \o chainName)]

\* faulty variant: the chains are linked at the end of the services chains
GenericGenerateRules_AppendLink(ctx) ==
  LET chainName == GenericChainName(ctx)
      networkItems == ctx.jobConfiguration.network.items
  IN
  [ install |->
      << _asIptables4Command("-N", "IN_" \o chainName, 0, NoMatch, ""),
         _asIptables4Command("-N", "OUT_" \o chainName, 0, NoMatch, "") >>
      \o Flatten([i \in 1..Len(networkItems) |-> GenericItemRules(chainName, networkItems[i])])
      \o << AppendRule(NoMatch, "RETURN", "IN_" \o chainName),
            AppendRule(NoMatch, "RETURN", "OUT_" \o chainName),
            AppendRule(NoMatch, "IN_" \o chainName, "IN_services_access_0"),
            AppendRule(NoMatch, "OUT_" \o chainName, "OUT_services_access_0") >>,
    unInstall |->
      << _asIptables4Command("-D", "IN_services_access_0", 0, NoMatch, "IN_" \o chainName),
         _asIptables4Command("-D", "OUT_services_access_0", 0, NoMatch, "OUT_" \o chainName),
         _asIptables4Command("-F", "IN_" \o chainName, 0, NoMatch, ""),
         _asIptables4Command("-X", "IN_" \o chainName, 0, NoMatch, ""),
         _asIptables4Command("-F", "OUT_" \o chainName, 0, NoMatch, ""),
         _asIptables4Command("-X", "OUT_" \o chainName, 0, NoMatch, "") >> ]

\* faulty variant: the chains are flushed and destroyed before they are unlinked
GenericGenerateRules_UnlinkLast(ctx) ==
  LET chainName == GenericChainName(ctx)
      networkItems == ctx.jobConfiguration.network.items
  IN
  [ install |->
      << _asIptables4Command("-N", "IN_" \o chainName, 0, NoMatch, ""),
         _asIptables4Command("-N", "OUT_" \o chainName, 0, NoMatch, "") >>
      \o Flatten([i \in 1..Len(networkItems) |-> GenericItemRules(chainName, networkItems[i])])
      \o << AppendRule(NoMatch, "RETURN", "IN_" \o chainName),
            AppendRule(NoMatch, "RETURN", "OUT_" \o chainName),
            _asIptables4Command("-I", "IN_services_access_0", 1, NoMatch, "IN_" \o chainName),
            _asIptables4Command("-I", "OUT_services_access_0", 1, NoMatch, "OUT_" \o chainName) >>,
    unInstall |->
      << _asIptables4Command("-F", "IN_" \o chainName, 0, NoMatch, ""),
         _asIptables4Command("-X", "IN_" \o chainName, 0, NoMatch, ""),
         _asIptables4Command("-F", "OUT_" \o chainName, 0, NoMatch, ""),
         _asIptables4Command("-X", "OUT_" \o chainName, 0, NoMatch, ""),
         _asIptables4Command("-D", "IN_services_access_0", 0, NoMatch, "IN_" \o chainName),
         _asIptables4Command("-D", "OUT_services_access_0", 0, NoMatch, "OUT_" \o chainName) >> ]

GenericGenerateRules(ctx) ==
  LET chainName == GenericChainName(ctx)
      networkItems == ctx.jobConfiguration.network.items
  IN
  [ install |->
      << _asIptables4Command("-N", "IN_" \o chainName, 0, NoMatch, ""),
         _asIptables4Command("-N", "OUT_" \o chainName, 0, NoMatch, "") >>
      \o Flatten([i \in 1..Len(networkItems) |-> GenericItemRules(chainName, networkItems[i])])
      \o << AppendRule(NoMatch, "RETURN", "IN_" \o chainName),
            AppendRule(NoMatch, "RETURN", "OUT_" \o chainName),
            _asIptables4Command("-I", "IN_services_access_0", 1, NoMatch, "IN_" \o chainName),
            _asIptables4Command("-I", "OUT_services_access_0", 1, NoMatch, "OUT_" \o chainName) >>,
    unInstall |->
      << _asIptables4Command("-D", "IN_services_access_0", 0, NoMatch, "IN_" \o chainName),
         _asIptables4Command("-D", "OUT_services_access_0", 0, NoMatch, "OUT_" \o chainName),
         _asIptables4Command("-F", "IN_" \o chainName, 0, NoMatch, ""),
         _asIptables4Command("-X", "IN_" \o chainName, 0, NoMatch, ""),
         _asIptables4Command("-F", "OUT_" \o chainName, 0, NoMatch, ""),
         _asIptables4Command("-X", "OUT_" \o chainName, 0, NoMatch, "") >> ]

-----------------------------------------------------------------------------
(* docker-dns-service job *)

\* DockerDnsServiceJob.prototype._getServiceChainName
DockerDnsServiceChainName == "dockerDnsService"

\* context.jobConfiguration.chainName || this._getServiceChainName()
DnsChainName(ctx) ==
  IF Has(ctx.jobConfiguration, "chainName") /\ ctx.jobConfiguration.chainName # ""
  THEN ctx.jobConfiguration.chainName ELSE DockerDnsServiceChainName

\* -t nat -i <link> -p <proto> -d <ip> --dport <port> -j DNAT --to <ip>:<port>
DnsNatRule(op, pos, item, proto) ==
  _asIptables4Command(op, "PREROUTING", pos,
    <<"-t", "nat", "-i", TextOf(item, "sourceLinkName"), "-p", proto,
      "-d", TextOf(item, "sourceIpAddress"), "--dport", TextOf(item, "sourcePortNumber"),
      "--to", TextOf(item, "destinationIpAddress") \o ":" \o TextOf(item, "destinationPortNumber")>>,
    "DNAT")

\* -p <proto> -d <ip> --dport <port> -j ACCEPT
DnsForwardRule(op, pos, item, proto) ==
  _asIptables4Command(op, "FORWARD", pos,
    <<"-p", proto, "-d", TextOf(item, "destinationIpAddress"),
      "--dport", TextOf(item, "destinationPortNumber")>>,
    "ACCEPT")

DnsChainRule(chainName, item, proto) ==
  AppendRule(<<"-p", proto, "-d", TextOf(item, "sourceIpAddress"),
               "--dport", TextOf(item, "sourcePortNumber")>>,
             "ACCEPT", "IN_dns_" \o chainName)

\* the six install commands pushed for one mapping
DnsItemInstall(chainName, item) ==
  << DnsNatRule("-I", 1, item, "tcp"), DnsNatRule("-I", 1, item, "udp"),
     DnsForwardRule("-I", 1, item, "tcp"), DnsForwardRule("-I", 1, item, "udp"),
     DnsChainRule(chainName, item, "tcp"), DnsChainRule(chainName, item, "udp") >>

\* faulty variant: the udp FORWARD rule of a mapping is never removed
DnsItemUnInstall_NoUdpForward(item) ==
  << DnsNatRule("-D", 0, item, "tcp"), DnsNatRule("-D", 0, item, "udp"),
     DnsForwardRule("-D", 0, item, "tcp") >>

\* the four uninstall commands pushed for one mapping
DnsItemUnInstall(item) ==
  << DnsNatRule("-D", 0, item, "tcp"), DnsNatRule("-D", 0, item, "udp"),
     DnsForwardRule("-D", 0, item, "tcp"), DnsForwardRule("-D", 0, item, "udp") >>

DnsGenerateRules(ctx) ==
  LET chainName == DnsChainName(ctx)
      networkItems == ctx.jobConfiguration.network.items
  IN
  [ install |->
      << _asIptables4Command("-N", "IN_dns_" \o chainName, 0, NoMatch, ""),
         _asIptables4Command("-N", "OUT_dns_" \o chainName, 0, NoMatch, "") >>
      \o Flatten([i \in 1..Len(networkItems) |-> DnsItemInstall(chainName, networkItems[i])])
      \o << AppendRule(NoMatch, "RETURN", "IN_dns_" \o chainName),
            AppendRule(NoMatch, "RETURN", "OUT_dns_" \o chainName),
            _asIptables4Command("-I", "IN_services_access_0", 1, NoMatch, "IN_dns_" \o chainName),
            _asIptables4Command("-I", "OUT_services_access_0", 1, NoMatch, "OUT_dns_" \o chainName) >>,
    unInstall |->
      << _asIptables4Command("-D", "IN_services_access_0", 0, NoMatch, "IN_dns_" \o chainName),
         _asIptables4Command("-D", "OUT_services_access_0", 0, NoMatch, "OUT_dns_" \o chainName),
         _asIptables4Command("-F", "IN_dns_" \o chainName, 0, NoMatch, ""),
         _asIptables4Command("-X", "IN_dns_" \o chainName, 0, NoMatch, ""),
         _asIptables4Command("-F", "OUT_dns_" \o chainName, 0, NoMatch, ""),
         _asIptables4Command("-X", "OUT_dns_" \o chainName, 0, NoMatch, "") >>
      \o Flatten([i \in 1..Len(networkItems) |-> DnsItemUnInstall(networkItems[i])]) ]

-----------------------------------------------------------------------------
(* sync-blacklist-ips job: the lists built from a successful query result *)

\* faulty variant: the entries are added last first
FetchNetworksCommands_Reversed(result) ==
  [ install |-> [i \in 1..Len(result) |->
                   _asIpSetCommand("-!", "add", "block_net", result[Len(result) + 1 - i].value)],
    unInstall |-> << _asIpSetCommand("", "flush", "block_net", "") >> ]

FetchNetworksCommands(result) ==
  [ install |-> [i \in 1..Len(result) |-> _asIpSetCommand("-!", "add", "block_net", result[i].value)],
    unInstall |-> << _asIpSetCommand("", "flush", "block_net", "") >> ]

-----------------------------------------------------------------------------
(* Validation: the Joi schemas of the four jobs, as predicates on the job  *)
(* configuration, and the value Joi hands back (defaults filled in).       *)

IpCidrTexts == {"10.0.0.0/8", "10.1.0.0/16", "192.168.0.0/16"}
IpPlainTexts == {"10.0.0.1", "172.17.0.2"}
NumberTexts == {"53", "80", "443", "5353"}

\* Joi.string(): a non-empty string
IsString(v) == v # "" /\ v # Null /\ v \notin NumberTexts

\* Joi.number()
IsNumber(v) == v \in NumberTexts

\* Joi.string().ip({cidr})
IsIp(v, cidr) ==
  CASE cidr = "required" -> v \in IpCidrTexts
    [] cidr = "optional" -> v \in IpCidrTexts \cup IpPlainTexts
    [] cidr = "forbidden" -> v \in IpPlainTexts

Required(o, f, P(_)) == Has(o, f) /\ P(o[f])
Optional(o, f, P(_)) == Has(o, f) => P(o[f])
ArrayOf(a, P(_)) == \A i \in 1..Len(a) : P(a[i])
\* Joi.array().items(schema.required()): at least one item, every item matching
ArrayOfRequired(a, P(_)) == Len(a) >= 1 /\ ArrayOf(a, P)

\* {value: ip cidr required, description}
NetworkItemValid(item) == Required(item, "value", LAMBDA v : IsIp(v, "required"))

DefaultActionValid(r) == Required(r, "defaultAction", IsString)

InterfaceRulesValid(r) ==
  /\ Required(r, "input", DefaultActionValid)
  /\ Required(r, "output", DefaultActionValid)

PrimaryInterfaceValid(pi) ==
  /\ Required(pi, "name", IsString)
  /\ Required(pi, "networks", LAMBDA a : ArrayOfRequired(a, NetworkItemValid))
  /\ Required(pi, "rules", InterfaceRulesValid)

PrepareNetworkValid(n) ==
  /\ Optional(n, "trustedItems", LAMBDA a : ArrayOf(a, NetworkItemValid))
  /\ Required(n, "primaryInterfaces", LAMBDA a : ArrayOfRequired(a, PrimaryInterfaceValid))

\* PrepareNetfilterJob validateConfiguration: the schema
PrepareSchemaValid(cfg) == Required(cfg, "network", PrepareNetworkValid)

GenericItemValid(item) ==
  /\ Required(item, "portNumber", IsNumber)
  /\ Optional(item, "sourceNetworks",
       LAMBDA a : a = Null \/ ArrayOf(a, LAMBDA v : IsIp(v, "optional")))
  /\ Required(item, "protocol", IsString)
  /\ Optional(item, "destinationNetwork", LAMBDA v : v = Null \/ IsIp(v, "optional"))

\* GenericServiceJob _validateConfiguration: the schema
GenericSchemaValid(cfg) ==
  /\ Optional(cfg, "chainName", IsString)
  /\ Required(cfg, "network",
       LAMBDA n : Required(n, "items", LAMBDA a : ArrayOf(a, GenericItemValid)))

DnsItemValid(item) ==
  /\ Optional(item, "sourcePortNumber", IsNumber)
  /\ Required(item, "sourceLinkName", IsString)
  /\ Required(item, "sourceIpAddress", LAMBDA v : IsIp(v, "forbidden"))
  /\ Required(item, "destinationPortNumber", IsNumber)
  /\ Optional(item, "destinationIpAddress", LAMBDA v : v = Null \/ IsIp(v, "forbidden"))

\* DockerDnsServiceJob _validateConfiguration: the schema
DnsSchemaValid(cfg) ==
  /\ Optional(cfg, "chainName", IsString)
  /\ Required(cfg, "network",
       LAMBDA n : Required(n, "items", LAMBDA a : ArrayOf(a, DnsItemValid)))

\* sourcePortNumber: Joi.number().default(53)
DnsDefaultSourcePort == "53"

\* faulty variant: the default of sourcePortNumber is not applied
DnsItemValidated_NoDefault(item) == item

DnsItemValidated(item) ==
  IF Has(item, "sourcePortNumber") THEN item
  ELSE item @@ [sourcePortNumber |-> DnsDefaultSourcePort]

\* configValidated of the docker-dns schema
DnsConfigValidated(cfg) ==
  [cfg EXCEPT !.network.items = [i \in 1..Len(@) |-> DnsItemValidated(@[i])]]

\* SynchronizeBlacklistIps validateConfiguration: the schema
BlacklistSchemaValid(cfg) ==
  Required(cfg, "database",
    LAMBDA d : Required(d, "connectionString", LAMBDA v : v = "postgres://db/security"))

-----------------------------------------------------------------------------
(* The packet filter the generated script acts on: the chains that exist   *)
(* with their rules in order, and the sets that exist with their members.  *)
(* The script has no `set -e`: a command that fails changes nothing and    *)
(* the next one runs.                                                      *)

BuiltinChains == {"INPUT", "OUTPUT", "FORWARD", "PREROUTING"}
TerminalTargets == {"ACCEPT", "DROP", "REJECT", "RETURN", "DNAT"}

Rule(c) == [match |-> c.match, target |-> c.target]

\* the set a rule matches on, if any
RuleSets(r) == {r.match[i + 1] : i \in {k \in 1..(Len(r.match) - 1) : r.match[k] = "--match-set"}}

ChainReferenced(f, name) ==
  \E ch \in DOMAIN f.chains : \E i \in 1..Len(f.chains[ch]) : f.chains[ch][i].target = name

SetReferenced(f, name) ==
  \E ch \in DOMAIN f.chains : \E i \in 1..Len(f.chains[ch]) : name \in RuleSets(f.chains[ch][i])

\* a rule can be added when its jump target and the set it matches on exist
RuleAccepted(f, r) ==
  /\ r.target \in TerminalTargets \/ r.target \in DOMAIN f.chains
  /\ RuleSets(r) \subseteq DOMAIN f.sets

InsertAt(s, pos, e) == SubSeq(s, 1, pos - 1) \o <<e>> \o SubSeq(s, pos, Len(s))
RemoveAt(s, pos) == SubSeq(s, 1, pos - 1) \o SubSeq(s, pos + 1, Len(s))
FirstIndex(s, e) == CHOOSE i \in 1..Len(s) : s[i] = e /\ \A j \in 1..(i - 1) : s[j] # e

WithChain(f, name, rules) == [f EXCEPT !.chains = (name :> rules) @@ f.chains]
WithoutChain(f, name) ==
  [f EXCEPT !.chains = [n \in DOMAIN f.chains \ {name} |-> f.chains[n]] @@ <<>>]
WithSet(f, name, members) == [f EXCEPT !.sets = (name :> members) @@ f.sets]
WithoutSet(f, name) ==
  [f EXCEPT !.sets = [n \in DOMAIN f.sets \ {name} |-> f.sets[n]] @@ <<>>]

\* iptables <value>
ApplyIptables(f, c) ==
  LET exists == c.name \in DOMAIN f.chains
      r == Rule(c)
  IN CASE c.op = "-N" -> IF exists THEN f ELSE WithChain(f, c.name, <<>>)
       [] c.op = "-A" -> IF exists /\ RuleAccepted(f, r)
                         THEN WithChain(f, c.name, Append(f.chains[c.name], r)) ELSE f
       [] c.op = "-I" -> IF exists /\ RuleAccepted(f, r) /\ c.pos <= Len(f.chains[c.name]) + 1
                         THEN WithChain(f, c.name, InsertAt(f.chains[c.name], c.pos, r)) ELSE f
       [] c.op = "-D" -> IF exists /\ \E i \in 1..Len(f.chains[c.name]) : f.chains[c.name][i] = r
                         THEN WithChain(f, c.name, RemoveAt(f.chains[c.name], FirstIndex(f.chains[c.name], r)))
                         ELSE f
       [] c.op = "-F" -> IF exists THEN WithChain(f, c.name, <<>>) ELSE f
       [] c.op = "-X" -> IF exists /\ c.name \notin BuiltinChains /\ f.chains[c.name] = <<>>
                            /\ ~ChainReferenced(f, c.name)
                         THEN WithoutChain(f, c.name) ELSE f
       [] OTHER -> f

\* ipset <value>
ApplyIpset(f, c) ==
  LET exists == c.name \in DOMAIN f.sets IN
  CASE c.op = "create" -> IF exists THEN f ELSE WithSet(f, c.name, {})
    [] c.op = "add" -> IF exists THEN WithSet(f, c.name, f.sets[c.name] \cup {c.match[2]}) ELSE f
    [] c.op = "destroy" -> IF exists /\ ~SetReferenced(f, c.name) THEN WithoutSet(f, c.name) ELSE f
    [] c.op = "flush" -> IF exists THEN WithSet(f, c.name, {}) ELSE f
    [] OTHER -> f

\* one line of the script: `iptables ` or `ipset ` by command.type
ApplyCommand(f, c) ==
  CASE c.type = "iptables-4" -> ApplyIptables(f, c)
    [] c.type = "ipset" -> ApplyIpset(f, c)
    [] OTHER -> f

\* the lines of the script from line i on, each acting on what the one before left
RECURSIVE ApplyFrom(_, _, _)
ApplyFrom(f, cmds, i) ==
  IF i > Len(cmds) THEN f
  ELSE LET g == ApplyCommand(f, cmds[i])
       IN IF g = f THEN ApplyFrom(f, cmds, i + 1) ELSE ApplyFrom(g, cmds, i + 1)

ApplyAll(f, cmds) == ApplyFrom(f, cmds, 1)

-----------------------------------------------------------------------------
(* Contexts: the policies the jobs are run on *)

SetField(r, k, v) == (k :> v) @@ r

NetworkItem(v) == [value |-> v]

Eth0 ==
  [name |-> "eth0", networks |-> <<NetworkItem("192.168.0.0/16")>>,
   rules |-> [input |-> [defaultAction |-> "DROP"], output |-> [defaultAction |-> "ACCEPT"]]]
Eth1 ==
  [name |-> "eth1", networks |-> <<NetworkItem("10.0.0.0/8"), NetworkItem("10.1.0.0/16")>>,
   rules |-> [input |-> [defaultAction |-> "REJECT"], output |-> [defaultAction |-> "ACCEPT"]]]

\* interface lists the schema refuses: no name, no network, a network without mask
MalformedInterfaceLists ==
  { <<[networks |-> Eth0.networks, rules |-> Eth0.rules]>>,
    <<[Eth0 EXCEPT !.networks = <<>>]>>,
    <<Eth0, [Eth1 EXCEPT !.networks = <<NetworkItem("10.0.0.1")>>]>> }

InterfaceLists == SeqsUpTo({Eth0, Eth1}, MaxInterfaces) \cup MalformedInterfaceLists

JobTrustedLists == {<<>>, <<NetworkItem("10.1.0.0/16")>>, <<NetworkItem("172.17.0.2")>>}

GlobalTrustedLists == SeqsUpTo({NetworkItem("10.0.0.0/8"), NetworkItem("192.168.0.0/16")}, MaxTrusted)

PrepareConfigurations ==
  { [network |-> [primaryInterfaces |-> ifs]] : ifs \in InterfaceLists }
  \cup { [network |-> [primaryInterfaces |-> <<Eth0>>, trustedItems |-> t]] : t \in JobTrustedLists }
  \cup { [network |-> [trustedItems |-> <<>>]] }

GlobalConfigurations ==
  { [version |-> "1"] } \cup { [version |-> "1", global |-> [network |-> [trustedItems |-> t]]] : t \in GlobalTrustedLists }

DefaultGlobal == [version |-> "1", global |-> [network |-> [trustedItems |-> <<NetworkItem("10.0.0.0/8")>>]]]

PrepareContexts ==
  { [configuration |-> DefaultGlobal, jobConfiguration |-> c] : c \in PrepareConfigurations }
  \cup { [configuration |-> g,
          jobConfiguration |-> [network |-> [primaryInterfaces |-> <<Eth0>>, trustedItems |-> t]]] :
           g \in GlobalConfigurations, t \in JobTrustedLists }

GenericItems ==
  { [portNumber |-> "443", protocol |-> "tcp", sourceNetworks |-> <<"10.0.0.0/8", "10.1.0.0/16">>],
    [portNumber |-> "80", protocol |-> "tcp", destinationNetwork |-> "10.0.0.1", sourceNetworks |-> Null],
    [portNumber |-> "53", protocol |-> "udp", sourceNetworks |-> <<>>],
    [portNumber |-> "22", protocol |-> "tcp"],
    [protocol |-> "udp", sourceNetworks |-> <<>>] }

GenericConfigurations ==
  { [network |-> [items |-> it]] : it \in SeqsUpTo(GenericItems, MaxItems) }
  \cup { [chainName |-> "web", network |-> [items |-> <<>>]], [chainName |-> "web"] }

\* the job entry of the configuration file, when the caller put it in the context
ConfigurationJobs(c) ==
  { [name |-> "generic-service", configuration |-> c],
    [name |-> "generic-service", configuration |-> c, chainName |-> "https"] }

GenericContexts ==
  { [configuration |-> DefaultGlobal, jobConfiguration |-> c] : c \in GenericConfigurations }
  \cup UNION { { [configuration |-> DefaultGlobal, jobConfiguration |-> c, configurationJob |-> cj] :
                   cj \in ConfigurationJobs(c) } : c \in GenericConfigurations }

DnsItems ==
  { [sourcePortNumber |-> "5353", sourceLinkName |-> "eth0", sourceIpAddress |-> "10.0.0.1",
     destinationPortNumber |-> "53", destinationIpAddress |-> "172.17.0.2"],
    [sourceLinkName |-> "eth1", sourceIpAddress |-> "10.0.0.1",
     destinationPortNumber |-> "53", destinationIpAddress |-> Null],
    [sourceLinkName |-> "eth0", sourceIpAddress |-> "10.0.0.0/8", destinationPortNumber |-> "53"] }

DnsConfigurations ==
  { [network |-> [items |-> it]] : it \in SeqsUpTo(DnsItems, MaxItems) }
  \cup { [chainName |-> "resolver", network |-> [items |-> <<it>>]] : it \in DnsItems }
  \cup { [chainName |-> "resolver"] }

DnsContexts == { [configuration |-> DefaultGlobal, jobConfiguration |-> c] : c \in DnsConfigurations }

BlacklistConfigurations ==
  { [database |-> [connectionString |-> "postgres://db/security"]],
    [database |-> [connectionString |-> "mysql://db/security"]],
    [network |-> [items |-> <<>>]] }

BlacklistContexts == { [configuration |-> DefaultGlobal, jobConfiguration |-> c] : c \in BlacklistConfigurations }

\* what the query of fetchNetworks can come back with
QueryResults == SeqsUpTo({NetworkItem("10.1.0.0/16"), NetworkItem("192.168.0.0/16")}, MaxEntries)

Jobs == {"prepare-netfilter", "generic-service", "docker-dns-service", "sync-blacklist-ips"}

ContextsOf(j) ==
  CASE j = "prepare-netfilter" -> PrepareContexts
    [] j = "generic-service" -> GenericContexts
    [] j = "docker-dns-service" -> DnsContexts
    [] j = "sync-blacklist-ips" -> BlacklistContexts

\* the direction tokens a caller passes; the command line offers the first two
CliActions == {"install", "uninstall"}
CommandTypes == CliActions \cup {"INSTALL", "Uninstall", "reload"}

\* String.prototype.toLowerCase on the tokens above
ToLowerCase(t) ==
  CASE t = "INSTALL" -> "install"
    [] t = "Uninstall" -> "uninstall"
    [] OTHER -> t

-----------------------------------------------------------------------------
(* The packet filter before the first run *)

NoSets == [n \in {} |-> {}]

ForeignRule == [match |-> <<"-p", "tcp", "--dport", "22">>, target |-> "ACCEPT"]

BareFilter == [chains |-> [c \in BuiltinChains |-> <<>>], sets |-> NoSets]

UsedFilter == [chains |-> [c \in BuiltinChains |-> <<ForeignRule>>], sets |-> NoSets]

\* a host whose INPUT already ends with a default action for eth0
DefaultedFilter ==
  [chains |-> [c \in BuiltinChains |->
                 IF c = "INPUT" THEN <<ForeignRule, [match |-> <<"--in-interface", "eth0">>, target |-> "DROP"]>>
                 ELSE <<>>],
   sets |-> NoSets]

PreparedContext ==
  [configuration |-> DefaultGlobal, jobConfiguration |-> [network |-> [primaryInterfaces |-> <<Eth0>>]]]

\* a host on which prepare-netfilter was installed
PreparedFilter ==
  ApplyAll(UsedFilter,
           generateVitalAccessChain(PreparedContext).install
           \o generateBlockNetworkChain(PreparedContext).install
           \o generateServiceAccessChain(PreparedContext).install
           \o generateTrustedNetworkChain(PreparedContext).install
           \o generateRootAccessChains(PreparedContext).install)

FiltersOf(j) ==
  IF j = "prepare-netfilter" THEN {BareFilter, UsedFilter, DefaultedFilter}
  ELSE {BareFilter, PreparedFilter}

-----------------------------------------------------------------------------
(* The workflow of execute() *)

\* the jobs used as a library: no command line workflow runs
NoWorkflow == [step |-> "none", state |-> "none", error |-> "", stdout |-> <<>>]

NoPromise == [state |-> "none", error |-> "", securityCommands |-> <<>>]
Pending == [state |-> "pending", error |-> "", securityCommands |-> <<>>]
Rejected(e) == [state |-> "rejected", error |-> e, securityCommands |-> <<>>]
Resolved(cmds) == [state |-> "resolved", error |-> "", securityCommands |-> cmds]

InvalidCommand == "IllegalArgumentError: Invalid command"
InvalidConfiguration == "IllegalArgumentError: Invalid configuration"
TypeError == "TypeError: Cannot read property 'chainName' of undefined"
QueryError == "Error: database"

Init ==
  /\ job \in Jobs
  /\ context \in ContextsOf(job)
  /\ steps = <<>>
  /\ stepIndex = 0
  /\ promise = NoPromise
  /\ queries = 0
  /\ fw \in FiltersOf(job)
  /\ fw0 = fw
  /\ clean = FALSE
  /\ applied = <<>>
  /\ workflow = NoWorkflow

\* faulty variant: the lists are created only when the context has none yet
WithEmptyCommands_KeepsOld(ctx) ==
  IF Has(ctx, "commands") THEN ctx
  ELSE SetField(ctx, "commands", [install |-> <<>>, unInstall |-> <<>>])

\* _.set(context, 'commands.install', []); _.set(context, 'commands.unInstall', [])
WithEmptyCommands(ctx) == SetField(ctx, "commands", [install |-> <<>>, unInstall |-> <<>>])

\* the caller sets context.jobCommand and calls execute(context)
Called(t) == WithEmptyCommands(SetField(context, "jobCommand", [type |-> t]))

PrepareInstallSteps ==
  << "generateVitalAccessChain", "generateBlockNetworkChain", "generateServiceAccessChain",
     "generateTrustedNetworkChain", "generateRootAccessChains" >>

PrepareUnInstallSteps ==
  << "generateRootAccessChains", "generateTrustedNetworkChain", "generateServiceAccessChain",
     "generateBlockNetworkChain", "generateVitalAccessChain" >>

\* faulty variant: uninstall runs the generators in the install order
PrepareSteps_SameOrder(t) ==
  <<"validateConfiguration">> \o
    ( CASE ToLowerCase(t) = "install" -> PrepareInstallSteps
        [] ToLowerCase(t) = "uninstall" -> PrepareInstallSteps
        [] OTHER -> <<>> )

\* PrepareNetfilterJob.prototype.execute: up to the start of the promise chain
PrepareSteps(t) ==
  <<"validateConfiguration">> \o
    ( CASE ToLowerCase(t) = "install" -> PrepareInstallSteps
        [] ToLowerCase(t) = "uninstall" -> PrepareUnInstallSteps
        [] OTHER -> <<>> )

ServiceSteps == <<"_validateConfiguration", "_generateRules">>

BlacklistSteps == <<"validateConfiguration", "fetchNetworks">>

\* faulty variant: the direction is not looked at before the steps are chained
Start_AnyDirection(t, stepList) ==
  /\ promise.state # "pending"
  /\ context' = Called(t)
  /\ steps' = stepList
  /\ stepIndex' = 0
  /\ queries' = 0
  /\ promise' = Pending
  /\ UNCHANGED <<job, fw, fw0, clean, applied, workflow>>

Start(t, stepList) ==
  /\ promise.state # "pending"
  /\ context' = Called(t)
  /\ steps' = stepList
  /\ stepIndex' = 0
  /\ queries' = 0
  /\ promise' = IF ToLowerCase(t) \in {"install", "uninstall"} THEN Pending ELSE Rejected(InvalidCommand)
  /\ UNCHANGED <<job, fw, fw0, clean, applied, workflow>>

PrepareExecute(t) == job = "prepare-netfilter" /\ Start(t, PrepareSteps(t))

GenericExecute(t) == job = "generic-service" /\ Start(t, ServiceSteps)

DnsExecute(t) == job = "docker-dns-service" /\ Start(t, ServiceSteps)

BlacklistExecute(t) == job = "sync-blacklist-ips" /\ Start(t, BlacklistSteps)

\* workflowPromise.then(() => step.call(this, context)) reaches the named step
AtStep(j, name) ==
  /\ job = j
  /\ promise.state = "pending"
  /\ stepIndex < Len(steps)
  /\ steps[stepIndex + 1] = name

StepDone(ctx) ==
  /\ context' = ctx
  /\ stepIndex' = stepIndex + 1
  /\ UNCHANGED <<job, steps, promise, queries, fw, fw0, clean, applied, workflow>>

\* faulty variant: the error of the step is replaced by a generic one
StepFailed_Wrapped(e) ==
  /\ promise' = Rejected("Error: workflow failed")
  /\ stepIndex' = stepIndex + 1
  /\ UNCHANGED <<job, context, steps, queries, fw, fw0, clean, applied, workflow>>

StepFailed(e) ==
  /\ promise' = Rejected(e)
  /\ stepIndex' = stepIndex + 1
  /\ UNCHANGED <<job, context, steps, queries, fw, fw0, clean, applied, workflow>>

\* faulty variant: the validation error is dropped and the workflow goes on
Validated_ErrorIgnored(valid, configValidated) ==
  StepDone(SetField(SetField(context, "rawJobConfiguration", context.jobConfiguration),
                    "jobConfiguration", configValidated))

\* Joi.validate callback: reject, or store the raw and the validated configuration
Validated(valid, configValidated) ==
  IF valid
  THEN StepDone(SetField(SetField(context, "rawJobConfiguration", context.jobConfiguration),
                         "jobConfiguration", configValidated))
  ELSE StepFailed(InvalidConfiguration)

\* context.commands.x = _.concat(context.commands.x, xCommands)
Concat(ctx, lists) ==
  SetField(ctx, "commands",
           [install |-> ctx.commands.install \o lists.install,
            unInstall |-> ctx.commands.unInstall \o lists.unInstall])

PrepareValidateConfiguration ==
  /\ AtStep("prepare-netfilter", "validateConfiguration")
  /\ Validated(PrepareSchemaValid(context.jobConfiguration), context.jobConfiguration)

GenerateVitalAccessChain ==
  /\ AtStep("prepare-netfilter", "generateVitalAccessChain")
  /\ StepDone(Concat(context, generateVitalAccessChain(context)))

GenerateBlockNetworkChain ==
  /\ AtStep("prepare-netfilter", "generateBlockNetworkChain")
  /\ StepDone(Concat(context, generateBlockNetworkChain(context)))

GenerateServiceAccessChain ==
  /\ AtStep("prepare-netfilter", "generateServiceAccessChain")
  /\ StepDone(Concat(context, generateServiceAccessChain(context)))

GenerateTrustedNetworkChain ==
  /\ AtStep("prepare-netfilter", "generateTrustedNetworkChain")
  /\ StepDone(Concat(context, generateTrustedNetworkChain(context)))

GenerateRootAccessChains ==
  /\ AtStep("prepare-netfilter", "generateRootAccessChains")
  /\ StepDone(Concat(context, generateRootAccessChains(context)))

GenericValidateConfiguration ==
  /\ AtStep("generic-service", "_validateConfiguration")
  /\ Validated(GenericSchemaValid(context.jobConfiguration), context.jobConfiguration)

\* context.configurationJob.chainName throws when the context has no configurationJob
GenericGenerate ==
  /\ AtStep("generic-service", "_generateRules")
  /\ IF Has(context, "configurationJob")
     THEN StepDone(Concat(context, GenericGenerateRules(context)))
     ELSE StepFailed(TypeError)

DnsValidateConfiguration ==
  /\ AtStep("docker-dns-service", "_validateConfiguration")
  /\ IF DnsSchemaValid(context.jobConfiguration)
     THEN Validated(TRUE, DnsConfigValidated(context.jobConfiguration))
     ELSE Validated(FALSE, context.jobConfiguration)

DnsGenerate ==
  /\ AtStep("docker-dns-service", "_generateRules")
  /\ StepDone(Concat(context, DnsGenerateRules(context)))

BlacklistValidateConfiguration ==
  /\ AtStep("sync-blacklist-ips", "validateConfiguration")
  /\ Validated(BlacklistSchemaValid(context.jobConfiguration), context.jobConfiguration)

\* db.query(...).then: both lists are replaced by the lists built from the result
FetchNetworksOk(result) ==
  /\ AtStep("sync-blacklist-ips", "fetchNetworks")
  /\ context' = SetField(context, "commands", FetchNetworksCommands(result))
  /\ stepIndex' = stepIndex + 1
  /\ queries' = queries + 1
  /\ UNCHANGED <<job, steps, promise, fw, fw0, clean, applied, workflow>>

\* faulty variant: a failed query is sent again instead of ending the execution
FetchNetworksFailed_Retried ==
  /\ AtStep("sync-blacklist-ips", "fetchNetworks")
  /\ queries' = queries + 1
  /\ UNCHANGED <<job, context, steps, stepIndex, promise, fw, fw0, clean, applied, workflow>>

\* db.query(...).catch: reject(error)
FetchNetworksFailed ==
  /\ AtStep("sync-blacklist-ips", "fetchNetworks")
  /\ promise' = Rejected(QueryError)
  /\ stepIndex' = stepIndex + 1
  /\ queries' = queries + 1
  /\ UNCHANGED <<job, context, steps, fw, fw0, clean, applied, workflow>>

\* faulty variant: both lists are handed back, one after the other
SelectCommands_Both(ctx) == ctx.commands.install \o ctx.commands.unInstall

\* the last .then of execute(): pick the list by jobCommand.type and resolve
SelectCommands(ctx) ==
  IF ctx.jobCommand.type = "install" THEN ctx.commands.install ELSE ctx.commands.unInstall

Resolve ==
  /\ promise.state = "pending"
  /\ stepIndex = Len(steps)
  /\ promise' = Resolved(SelectCommands(context))
  /\ UNCHANGED <<job, context, steps, stepIndex, queries, fw, fw0, clean, applied, workflow>>

-----------------------------------------------------------------------------
(* The command line run: one process per run, a fresh context each time,   *)
(* and, with --apply, the returned list written to a script and executed.  *)

Range(seq) == {seq[i] : i \in 1..Len(seq)}

ChainsCreated(cmds) == {c.name : c \in {d \in Range(cmds) : d.type = "iptables-4" /\ d.op = "-N"}}
SetsCreated(cmds) == {c.name : c \in {d \in Range(cmds) : d.type = "ipset" /\ d.op = "create"}}

\* the rules a list puts into chains it does not create itself
LinksAdded(cmds) ==
  {c \in Range(cmds) : c.type = "iptables-4" /\ c.op \in {"-I", "-A"} /\ c.name \notin ChainsCreated(cmds)}

\* the filter holds none of the chains, sets and links the list adds
CleanFor(f, cmds) ==
  /\ ChainsCreated(cmds) \cap DOMAIN f.chains = {}
  /\ SetsCreated(cmds) \cap DOMAIN f.sets = {}
  /\ \A c \in LinksAdded(cmds) : c.name \in DOMAIN f.chains => Rule(c) \notin Range(f.chains[c.name])

\* the context a new process builds from the same configuration file
FreshContext(ctx) ==
  [k \in DOMAIN ctx \ {"jobCommand", "commands", "rawJobConfiguration"} |->
     IF k = "jobConfiguration" /\ Has(ctx, "rawJobConfiguration")
     THEN ctx.rawJobConfiguration ELSE ctx[k]]

ProcessEnds ==
  /\ context' = FreshContext(context)
  /\ steps' = <<>>
  /\ stepIndex' = 0
  /\ queries' = 0
  /\ promise' = NoPromise

\* the Apply step: the script runs every command of the response in order
Apply ==
  /\ promise.state = "resolved"
  /\ context.jobCommand.type \in CliActions
  /\ Len(applied) < MaxApplied
  /\ fw' = ApplyAll(fw, promise.securityCommands)
  /\ applied' = Append(applied, context.jobCommand.type)
  /\ clean' = IF applied = <<>> THEN CleanFor(fw, promise.securityCommands) ELSE clean
  /\ ProcessEnds
  /\ UNCHANGED <<job, fw0, workflow>>

\* a run without --apply, or a run that failed
Exit ==
  /\ promise.state \in {"resolved", "rejected"}
  /\ ProcessEnds
  /\ UNCHANGED <<job, fw, fw0, clean, applied, workflow>>

-----------------------------------------------------------------------------
(* Specifications *)

Execute(t) == PrepareExecute(t) \/ GenericExecute(t) \/ DnsExecute(t) \/ BlacklistExecute(t)

Step ==
  \/ PrepareValidateConfiguration
  \/ GenerateVitalAccessChain
  \/ GenerateBlockNetworkChain
  \/ GenerateServiceAccessChain
  \/ GenerateTrustedNetworkChain
  \/ GenerateRootAccessChains
  \/ GenericValidateConfiguration
  \/ GenericGenerate
  \/ DnsValidateConfiguration
  \/ DnsGenerate
  \/ BlacklistValidateConfiguration
  \/ \E result \in QueryResults : FetchNetworksOk(result)
  \/ FetchNetworksFailed
  \/ Resolve

\* a caller that runs executions one after another on the same job and context
Next ==
  \/ \E t \in CommandTypes : Execute(t)
  \/ Step

Spec == Init /\ [][Next]_vars

\* command line runs, each in its own process, with or without --apply
CliRun(t) == promise.state = "none" /\ Execute(t)

NextApply ==
  \/ \E t \in CliActions : CliRun(t)
  \/ Step
  \/ Apply
  \/ Exit

SpecApply == Init /\ [][NextApply]_vars

\* the service jobs of one configuration file: every entry valid, one item each
ServiceRuns ==
  { [job |-> "generic-service", context |-> c] :
      c \in { x \in GenericContexts :
                /\ Has(x, "configurationJob")
                /\ GenericSchemaValid(x.jobConfiguration)
                /\ Len(x.jobConfiguration.network.items) = 1 } }
  \cup
  { [job |-> "docker-dns-service", context |-> c] :
      c \in { x \in DnsContexts :
                /\ DnsSchemaValid(x.jobConfiguration)
                /\ Len(x.jobConfiguration.network.items) = 1 } }

InitServices ==
  /\ job = "prepare-netfilter"
  /\ context = PreparedContext
  /\ steps = <<>>
  /\ stepIndex = 0
  /\ promise = NoPromise
  /\ queries = 0
  /\ fw \in {BareFilter, UsedFilter}
  /\ fw0 = fw
  /\ clean = FALSE
  /\ applied = <<>>
  /\ workflow = NoWorkflow

\* the next command line run names another job of the configuration file
SelectJob ==
  /\ promise.state = "none"
  /\ \E r \in ServiceRuns :
       /\ job' = r.job
       /\ context' = r.context
  /\ UNCHANGED <<steps, stepIndex, promise, queries, fw, fw0, clean, applied, workflow>>

ServiceStep ==
  \/ PrepareValidateConfiguration
  \/ GenerateVitalAccessChain
  \/ GenerateBlockNetworkChain
  \/ GenerateServiceAccessChain
  \/ GenerateTrustedNetworkChain
  \/ GenerateRootAccessChains
  \/ GenericValidateConfiguration
  \/ GenericGenerate
  \/ DnsValidateConfiguration
  \/ DnsGenerate
  \/ Resolve

\* installs only: prepare-netfilter and then service jobs, one process each
NextServices ==
  \/ CliRun("install")
  \/ ServiceStep
  \/ Apply
  \/ Exit
  \/ SelectJob

SpecServices == InitServices /\ [][NextServices]_vars

\* the steps are properties of execute.Steps: a caller can run a generator on
\* a context of its own, whatever the interface list it holds
StepContexts ==
  { WithEmptyCommands([configuration |-> DefaultGlobal,
                       jobConfiguration |-> [network |-> [primaryInterfaces |-> ifs]],
                       jobCommand |-> [type |-> "install"]]) :
      ifs \in SeqsUpTo({Eth0, Eth1}, MaxInterfaces) }

InitSteps ==
  /\ job = "prepare-netfilter"
  /\ context \in StepContexts
  /\ steps = <<>>
  /\ stepIndex = 0
  /\ promise = NoPromise
  /\ queries = 0
  /\ fw = BareFilter
  /\ fw0 = fw
  /\ clean = FALSE
  /\ applied = <<>>
  /\ workflow = NoWorkflow

\* the lists one generator of prepare-netfilter builds
StepCommands(name, ctx) ==
  CASE name = "generateVitalAccessChain" -> generateVitalAccessChain(ctx)
    [] name = "generateBlockNetworkChain" -> generateBlockNetworkChain(ctx)
    [] name = "generateServiceAccessChain" -> generateServiceAccessChain(ctx)
    [] name = "generateTrustedNetworkChain" -> generateTrustedNetworkChain(ctx)
    [] name = "generateRootAccessChains" -> generateRootAccessChains(ctx)

\* Steps[name].call(job, context): the generator appends its lists to the context's
DirectStep(name) ==
  /\ Len(steps) < MaxCalls
  /\ context' = Concat(context, StepCommands(name, context))
  /\ steps' = Append(steps, name)
  /\ stepIndex' = stepIndex + 1
  /\ UNCHANGED <<job, promise, queries, fw, fw0, clean, applied, workflow>>

NextSteps == \E name \in Range(PrepareInstallSteps) : DirectStep(name)

SpecSteps == InitSteps /\ [][NextSteps]_vars

-----------------------------------------------------------------------------
(* The command line (bin/generic-main.js): one promise chain of the steps  *)
(* LoadConfig, CreateJobInstance, ExecuteJob, HandleExecutionResponse,     *)
(* Print and Apply, with one .catch that writes the error and exits.       *)

\* the configuration file, as the schema hands it back
ConfigurationFile ==
  [ version |-> "1", fileVersion |-> "1",
    global |-> DefaultGlobal.global,
    configurations |->
      << [ id |-> "gateway",
           jobs |-> << [name |-> "prepare-netfilter",
                        configuration |-> PreparedContext.jobConfiguration],
                       [name |-> "generic-service", chainName |-> "https",
                        configuration |-> [network |-> [items |->
                          <<[portNumber |-> "443", protocol |-> "tcp",
                             sourceNetworks |-> <<"10.0.0.0/8", "10.1.0.0/16">>]>>]]],
                       [name |-> "docker-dns-service",
                        configuration |-> [network |-> [items |->
                          <<[sourcePortNumber |-> "5353", sourceLinkName |-> "eth0",
                             sourceIpAddress |-> "10.0.0.1", destinationPortNumber |-> "53",
                             destinationIpAddress |-> "172.17.0.2"]>>]]],
                       [name |-> "sync-blacklist-ips",
                        configuration |-> [database |-> [connectionString |-> "postgres://db/security"]]],
                       [name |-> "country-block",
                        configuration |-> [database |-> [connectionString |-> "postgres://db/security"]]] >> ],
         [ id |-> "lab",
           jobs |-> << [name |-> "prepare-netfilter",
                        configuration |-> PreparedContext.jobConfiguration] >> ] >> ]

\* argsParser.parseArgs(): --id, --job, --action (install or uninstall), --print, --apply
UsageArgs ==
  [ configurationId : {"gateway", "lab", "production"},
    jobName : Jobs \cup {"country-block", "port-knocking"},
    action : CliActions,
    printRules : BOOLEAN,
    apply : BOOLEAN ]

WorkflowAt(step) == [step |-> step, state |-> "pending", error |-> "", stdout |-> <<>>]

ConfigurationNotFound == "Error: Cannot find the configuration item"
JobNotConfigured == "Error: Cannot find the configuration job"
JobModuleNotFound == "NotFoundError: Job not found"

InitCli ==
  /\ job = "none"
  /\ context \in { [usageArgs |-> a, configuration |-> <<>>] : a \in UsageArgs }
  /\ steps = <<>>
  /\ stepIndex = 0
  /\ promise = NoPromise
  /\ queries = 0
  /\ fw = BareFilter
  /\ fw0 = fw
  /\ clean = FALSE
  /\ applied = <<>>
  /\ workflow = WorkflowAt("LoadConfig")

\* .catch(error => { process.stderr.write(...); process.exit(1); })
WorkflowFailed(e) ==
  workflow' = [step |-> workflow.step, state |-> "exit(1)", error |-> e, stdout |-> workflow.stdout]

\* the promise of the step is never resolved nor rejected
WorkflowNeverSettles ==
  workflow' = [workflow EXCEPT !.state = "unsettled"]

\* _.find(list, {key: value}): the entries that match, in the order of the
\* list; _.find returns the first of them, or undefined when there is none
Matching(list, key, value) == SelectSeq(list, LAMBDA entry : entry[key] = value)

LoadConfig ==
  /\ workflow = WorkflowAt("LoadConfig")
  /\ LET loaded == SetField(SetField(context, "rawConfiguration", ConfigurationFile),
                            "configuration", ConfigurationFile)
         items == Matching(ConfigurationFile.configurations, "id", context.usageArgs.configurationId)
     IN IF items = <<>>
        THEN context' = loaded /\ WorkflowFailed(ConfigurationNotFound)
        ELSE LET configurationItem == items[1]
                 found == SetField(loaded, "configurationItem", configurationItem)
                 jobs == Matching(configurationItem.jobs, "name", context.usageArgs.jobName)
             IN IF jobs = <<>>
                THEN context' = found /\ WorkflowFailed(JobNotConfigured)
                ELSE LET configurationJob == jobs[1] IN
                     /\ context' = SetField(SetField(found, "configurationJob", configurationJob),
                                            "jobConfiguration", configurationJob.configuration)
                     /\ workflow' = WorkflowAt("CreateJobInstance")
  /\ UNCHANGED <<job, steps, stepIndex, promise, queries, fw, fw0, clean, applied>>

\* require(`./../jobs/${name}`), new jobModule.Job(), initialize({})
CreateJobInstance ==
  /\ workflow = WorkflowAt("CreateJobInstance")
  /\ IF context.configurationJob.name \in Jobs
     THEN job' = context.configurationJob.name /\ workflow' = WorkflowAt("ExecuteJob")
     ELSE job' = job /\ WorkflowFailed(JobModuleNotFound)
  /\ UNCHANGED <<context, steps, stepIndex, promise, queries, fw, fw0, clean, applied>>

\* context.jobCommand = {type: usageArgs.action}; return jobInstance.execute(context)
ExecuteJob ==
  /\ workflow = WorkflowAt("ExecuteJob")
  /\ promise.state = "none"
  /\ Execute(context.usageArgs.action)

\* the chain takes the state of the promise execute() returned
HandleExecutionResponse ==
  /\ workflow = WorkflowAt("ExecuteJob")
  /\ promise.state \in {"resolved", "rejected"}
  /\ IF promise.state = "resolved"
     THEN /\ context' = SetField(context, "jobResponse", [securityCommands |-> promise.securityCommands])
          /\ workflow' = WorkflowAt("Print")
     ELSE /\ context' = context
          /\ WorkflowFailed(promise.error)
  /\ UNCHANGED <<job, steps, stepIndex, promise, queries, fw, fw0, clean, applied>>

\* if (printRules !== true) return; ... process.stdout.write(data); resolve()
PrintStep ==
  /\ workflow = WorkflowAt("Print")
  /\ IF context.usageArgs.printRules
     THEN workflow' = [WorkflowAt("Apply") EXCEPT !.stdout = context.jobResponse.securityCommands]
     ELSE WorkflowNeverSettles
  /\ UNCHANGED <<job, context, steps, stepIndex, promise, queries, fw, fw0, clean, applied>>

\* if (apply !== true) return; ... outputFile, child_process.exec, resolve()
ApplyStep ==
  /\ workflow.step = "Apply" /\ workflow.state = "pending"
  /\ IF context.usageArgs.apply
     THEN /\ fw' = ApplyAll(fw, context.jobResponse.securityCommands)
          /\ applied' = Append(applied, context.usageArgs.action)
          /\ clean' = CleanFor(fw, context.jobResponse.securityCommands)
          /\ workflow' = [workflow EXCEPT !.step = "done", !.state = "resolved"]
     ELSE /\ WorkflowNeverSettles
          /\ UNCHANGED <<fw, clean, applied>>
  /\ UNCHANGED <<job, context, steps, stepIndex, promise, queries, fw0>>

NextCli ==
  \/ LoadConfig
  \/ CreateJobInstance
  \/ ExecuteJob
  \/ Step
  \/ HandleExecutionResponse
  \/ PrintStep
  \/ ApplyStep

SpecCli == InitCli /\ [][NextCli]_vars

-----------------------------------------------------------------------------
(* Reading a transcript *)

\* an execution accepted as install (uninstall) has resolved
InstallRun == promise.state = "resolved" /\ ToLowerCase(context.jobCommand.type) = "install"
UninstallRun == promise.state = "resolved" /\ ToLowerCase(context.jobCommand.type) = "uninstall"

InstallList == context.commands.install
UninstallList == context.commands.unInstall

Where(cmds, P(_)) == {i \in 1..Len(cmds) : P(cmds[i])}
Before(A, B) == \A a \in A : \A b \in B : a < b
Count(cmds, P(_)) == Cardinality(Where(cmds, P))

IsIptables(c, ops, chain) == c.type = "iptables-4" /\ c.op \in ops /\ c.name = chain
Jumps(cmds, ops, parent, target) == Where(cmds, LAMBDA c : IsIptables(c, ops, parent) /\ c.target = target)
InterfaceDefaults(cmds, ops) ==
  Where(cmds, LAMBDA c : IsIptables(c, ops, "INPUT") /\ c.match # <<>> /\ c.match[1] = "--in-interface")

ServiceJobs == {"prepare-netfilter", "generic-service", "docker-dns-service"}

-----------------------------------------------------------------------------
(* C1: for prepare-netfilter, generic-service and docker-dns: from a       *)
(* packet filter holding none of the job's chains, sets and links,         *)
(* applying the install transcript and then the uninstall transcript of    *)
(* the same policy once or several times leaves the packet filter (the     *)
(* chains that exist, the rules of every chain, the sets) as it was.       *)

InstallThenUninstalls ==
  /\ Len(applied) >= 2
  /\ applied[1] = "install"
  /\ \A i \in 2..Len(applied) : applied[i] = "uninstall"

C1_RoundTrip ==
  (job \in ServiceJobs /\ promise.state = "none" /\ clean /\ InstallThenUninstalls) => fw = fw0

C1_Witness ==
  /\ job = "prepare-netfilter"
  /\ fw0 = UsedFilter
  /\ clean
  /\ applied = <<"install", "uninstall", "uninstall">>
  /\ fw = fw0

-----------------------------------------------------------------------------
(* C2: in prepare-netfilter the generators run, after validation, in the   *)
(* order vital, block, services, trusted, root for install and in the      *)
(* reversed order for uninstall; the returned transcript is the            *)
(* concatenation of the generators' lists in that order, so the root       *)
(* generator's commands end the install transcript and begin the           *)
(* uninstall transcript.                                                   *)

StepsRun == SubSeq(steps, 1, stepIndex)

C2_StepOrder ==
  (job = "prepare-netfilter" /\ promise.state = "resolved") =>
    LET vital == generateVitalAccessChain(context)
        block == generateBlockNetworkChain(context)
        services == generateServiceAccessChain(context)
        trusted == generateTrustedNetworkChain(context)
        root == generateRootAccessChains(context)
        returned == promise.securityCommands
    IN /\ ToLowerCase(context.jobCommand.type) = "install" =>
            StepsRun = << "validateConfiguration", "generateVitalAccessChain", "generateBlockNetworkChain",
                          "generateServiceAccessChain", "generateTrustedNetworkChain",
                          "generateRootAccessChains" >>
       /\ ToLowerCase(context.jobCommand.type) = "uninstall" =>
            StepsRun = << "validateConfiguration", "generateRootAccessChains", "generateTrustedNetworkChain",
                          "generateServiceAccessChain", "generateBlockNetworkChain",
                          "generateVitalAccessChain" >>
       /\ context.jobCommand.type = "install" =>
            /\ returned = vital.install \o block.install \o services.install \o trusted.install \o root.install
            /\ SubSeq(returned, Len(returned) - Len(root.install) + 1, Len(returned)) = root.install
       /\ context.jobCommand.type = "uninstall" =>
            /\ returned = root.unInstall \o trusted.unInstall \o services.unInstall
                            \o block.unInstall \o vital.unInstall
            /\ SubSeq(returned, 1, Len(root.unInstall)) = root.unInstall

C2_Witness ==
  /\ job = "prepare-netfilter"
  /\ promise.state = "resolved"
  /\ context.jobCommand.type = "uninstall"
  /\ Len(context.jobConfiguration.network.primaryInterfaces) = 2
  /\ promise.securityCommands[1] = _asIptables4Command("-D", "INPUT", 0, NoMatch, "IN_trusted_access_0")

-----------------------------------------------------------------------------
(* C3, as claimed: in the uninstall transcript of prepare-netfilter the    *)
(* INPUT removals come in the reverse of the install order: the            *)
(* per-interface default actions, then services, block, vital, trusted.    *)

C3_RemovalsReversed ==
  (job = "prepare-netfilter" /\ UninstallRun) =>
    LET L == UninstallList IN
    /\ Before(InterfaceDefaults(L, {"-D"}), Jumps(L, {"-D"}, "INPUT", "IN_services_access_0"))
    /\ Before(Jumps(L, {"-D"}, "INPUT", "IN_services_access_0"), Jumps(L, {"-D"}, "INPUT", "IN_block_access_0"))
    /\ Before(Jumps(L, {"-D"}, "INPUT", "IN_block_access_0"), Jumps(L, {"-D"}, "INPUT", "IN_vital_access_0"))
    /\ Before(Jumps(L, {"-D"}, "INPUT", "IN_vital_access_0"), Jumps(L, {"-D"}, "INPUT", "IN_trusted_access_0"))

(* C3, amended: the INPUT removals come in the same order as the install   *)
(* order: trusted, vital, block, services, then the per-interface default  *)
(* actions in configuration order.                                         *)

C3_RemovalsInInstallOrder ==
  (job = "prepare-netfilter" /\ UninstallRun) =>
    LET L == UninstallList
        primaryInterfaces == context.jobConfiguration.network.primaryInterfaces
        n == Len(primaryInterfaces)
    IN /\ Len(L) >= 4 + n
       /\ L[1] = _asIptables4Command("-D", "INPUT", 0, NoMatch, "IN_trusted_access_0")
       /\ L[2] = _asIptables4Command("-D", "INPUT", 0, NoMatch, "IN_vital_access_0")
       /\ L[3] = _asIptables4Command("-D", "INPUT", 0, <<"-m", "set", "--match-set", "block_net", "src">>,
                                     "IN_block_access_0")
       /\ L[4] = _asIptables4Command("-D", "INPUT", 0, NoMatch, "IN_services_access_0")
       /\ \A i \in 1..n :
            L[4 + i] = _asIptables4Command("-D", "INPUT", 0, <<"--in-interface", primaryInterfaces[i].name>>,
                                           primaryInterfaces[i].rules.input.defaultAction)
       /\ Where(L, LAMBDA c : IsIptables(c, {"-D"}, "INPUT")) = 1..(4 + n)

C3_Witness ==
  /\ job = "prepare-netfilter"
  /\ UninstallRun
  /\ Len(context.jobConfiguration.network.primaryInterfaces) = 2
  /\ context.jobConfiguration.network.primaryInterfaces[1].name
       # context.jobConfiguration.network.primaryInterfaces[2].name
  /\ Len(UninstallList) > 6

-----------------------------------------------------------------------------
(* C4: in the install transcript of prepare-netfilter the INPUT activation *)
(* of the trusted chain comes before that of the vital chain, before that  *)
(* of the block chain, before that of the services chain, before every     *)
(* per-interface default-action rule.                                      *)

C4_ActivationOrder ==
  (job = "prepare-netfilter" /\ InstallRun) =>
    LET L == InstallList
        add == {"-I", "-A"}
        trusted == Jumps(L, add, "INPUT", "IN_trusted_access_0")
        vital == Jumps(L, add, "INPUT", "IN_vital_access_0")
        block == Jumps(L, add, "INPUT", "IN_block_access_0")
        services == Jumps(L, add, "INPUT", "IN_services_access_0")
        defaults == InterfaceDefaults(L, add)
    IN /\ Cardinality(trusted) = 1 /\ Cardinality(vital) = 1
       /\ Cardinality(block) = 1 /\ Cardinality(services) = 1
       /\ Cardinality(defaults) = Len(context.jobConfiguration.network.primaryInterfaces)
       /\ Before(trusted, vital) /\ Before(vital, block)
       /\ Before(block, services) /\ Before(services, defaults)

C4_Witness ==
  /\ job = "prepare-netfilter"
  /\ InstallRun
  /\ Cardinality(InterfaceDefaults(InstallList, {"-A"})) = 2

-----------------------------------------------------------------------------
(* C5: symmetry.  For every job, the chains the uninstall list flushes and *)
(* destroys are the chains the install list creates, each once; the links  *)
(* the uninstall list deletes are the links (parent chain, match, target)  *)
(* the install list inserts or appends, as often as it adds them; the sets *)
(* it destroys are the sets the install list creates.                      *)

Link(c) == [chain |-> c.name, match |-> c.match, target |-> c.target]

IsLinkAdd(cmds, c) ==
  c.type = "iptables-4" /\ c.op \in {"-I", "-A"} /\ c.name \notin ChainsCreated(cmds)

BothListsBuilt == promise.state = "resolved"

C5_Symmetry ==
  BothListsBuilt =>
    LET I == InstallList
        U == UninstallList
        chains == {c.name : c \in {d \in Range(I) \cup Range(U) : d.type = "iptables-4" /\ d.op \in {"-N", "-F", "-X"}}}
        links == {Link(c) : c \in {d \in Range(I) : IsLinkAdd(I, d)}}
                 \cup {Link(c) : c \in {d \in Range(U) : d.type = "iptables-4" /\ d.op = "-D"}}
        sets == {c.name : c \in {d \in Range(I) \cup Range(U) : d.type = "ipset" /\ d.op \in {"create", "destroy"}}}
    IN /\ \A n \in chains :
            /\ Count(I, LAMBDA c : IsIptables(c, {"-N"}, n)) = 1
            /\ Count(U, LAMBDA c : IsIptables(c, {"-F"}, n)) = 1
            /\ Count(U, LAMBDA c : IsIptables(c, {"-X"}, n)) = 1
       /\ \A l \in links :
            Count(I, LAMBDA c : IsLinkAdd(I, c) /\ Link(c) = l)
              = Count(U, LAMBDA c : c.type = "iptables-4" /\ c.op = "-D" /\ Link(c) = l)
       /\ \A n \in sets :
            /\ Count(I, LAMBDA c : c.type = "ipset" /\ c.op = "create" /\ c.name = n) = 1
            /\ Count(U, LAMBDA c : c.type = "ipset" /\ c.op = "destroy" /\ c.name = n) = 1

C5_Witness ==
  /\ job = "docker-dns-service"
  /\ BothListsBuilt
  /\ Len(context.jobConfiguration.network.items) = 2
  /\ Count(UninstallList, LAMBDA c : c.type = "iptables-4" /\ c.op = "-D") = 10

-----------------------------------------------------------------------------
(* C6: in every install transcript, for each chain it creates: the create  *)
(* (-N) comes first, then the rules appended to the chain, the last of     *)
(* them the catch-all RETURN (DROP for the block chain), then the rule     *)
(* that links the chain into its parent; nothing is appended to the chain  *)
(* and nothing jumps to it before its create.                              *)

CatchAll(n) == IF n = "IN_block_access_0" THEN "DROP" ELSE "RETURN"

Max(S) == CHOOSE x \in S : \A y \in S : y <= x

C6_InstallOrder ==
  InstallRun =>
    LET L == InstallList IN
    \A n \in ChainsCreated(L) :
      LET create == Where(L, LAMBDA c : IsIptables(c, {"-N"}, n))
          appends == Where(L, LAMBDA c : IsIptables(c, {"-A", "-I"}, n))
          jumps == Where(L, LAMBDA c : c.type = "iptables-4" /\ c.target = n)
      IN /\ Cardinality(create) = 1
         /\ appends # {}
         /\ jumps # {}
         /\ Before(create, appends)
         /\ Before(appends, jumps)
         /\ L[Max(appends)] = _asIptables4Command("-A", n, 0, NoMatch, CatchAll(n))
         /\ \A i \in jumps : L[i].op = "-I" /\ L[i].name \notin {n}

C6_Witness ==
  /\ job = "generic-service"
  /\ InstallRun
  /\ Cardinality(Where(InstallList, LAMBDA c : IsIptables(c, {"-A"}, "IN_https"))) = 4

-----------------------------------------------------------------------------
(* C7: in every uninstall transcript, for each managed chain the deletion  *)
(* of its activation link precedes its flush (-F), which precedes its      *)
(* destroy (-X); and no command removes a single rule from inside a        *)
(* managed chain.                                                          *)

C7_UninstallOrder ==
  UninstallRun =>
    LET U == UninstallList
        managed == ChainsCreated(InstallList)
    IN /\ \A n \in managed :
            LET unlink == Where(U, LAMBDA c : c.type = "iptables-4" /\ c.op = "-D" /\ c.target = n)
                flush == Where(U, LAMBDA c : IsIptables(c, {"-F"}, n))
                destroy == Where(U, LAMBDA c : IsIptables(c, {"-X"}, n))
            IN /\ unlink # {} /\ flush # {} /\ destroy # {}
               /\ Before(unlink, flush)
               /\ Before(flush, destroy)
       /\ \A i \in 1..Len(U) : (U[i].type = "iptables-4" /\ U[i].op = "-D") => U[i].name \notin managed

C7_Witness ==
  /\ job = "docker-dns-service"
  /\ UninstallRun
  /\ ChainsCreated(InstallList) = {"IN_dns_resolver", "OUT_dns_resolver"}
  /\ Len(UninstallList) = 10

-----------------------------------------------------------------------------
(* C8: the root generator inserts into INPUT the trusted chain at 1, the   *)
(* vital chain at 2, the block chain (on membership of the source in       *)
(* block_net) at 3 and the services chain at 4, then appends one default   *)
(* action per primary interface in configuration order; into OUTPUT it     *)
(* inserts trusted at 1, vital at 2 and services at 3 and nothing else.    *)
(* Applied to an empty INPUT and OUTPUT, the rules end up in that order.   *)

OnChain(cmds, chain) == SelectSeq(cmds, LAMBDA c : c.type = "iptables-4" /\ c.name = chain)

JumpRule(match, target) == [match |-> match, target |-> target]

InputListing(primaryInterfaces) ==
  << JumpRule(<<>>, "IN_trusted_access_0"),
     JumpRule(<<>>, "IN_vital_access_0"),
     JumpRule(<<"-m", "set", "--match-set", "block_net", "src">>, "IN_block_access_0"),
     JumpRule(<<>>, "IN_services_access_0") >>
  \o [i \in 1..Len(primaryInterfaces) |->
        JumpRule(<<"--in-interface", primaryInterfaces[i].name>>,
                 primaryInterfaces[i].rules.input.defaultAction)]

OutputListing ==
  << JumpRule(<<>>, "OUT_trusted_access_0"),
     JumpRule(<<>>, "OUT_vital_access_0"),
     JumpRule(<<>>, "OUT_services_access_0") >>

C8_RootWiring ==
  job = "prepare-netfilter" =>
    LET primaryInterfaces == context.jobConfiguration.network.primaryInterfaces IN
    /\ InstallRun =>
         LET in == OnChain(InstallList, "INPUT")
             out == OnChain(InstallList, "OUTPUT")
             listing == InputListing(primaryInterfaces)
         IN /\ Len(in) = Len(listing)
            /\ \A i \in 1..Len(in) :
                 /\ Rule(in[i]) = listing[i]
                 /\ IF i <= 4 THEN in[i].op = "-I" /\ in[i].pos = i ELSE in[i].op = "-A"
            /\ Len(out) = 3
            /\ \A i \in 1..3 : Rule(out[i]) = OutputListing[i] /\ out[i].op = "-I" /\ out[i].pos = i
    /\ (promise.state = "none" /\ applied = <<"install">> /\ fw0 = BareFilter) =>
         /\ fw.chains["INPUT"] = InputListing(primaryInterfaces)
         /\ fw.chains["OUTPUT"] = OutputListing

C8_Witness ==
  /\ job = "prepare-netfilter"
  /\ promise.state = "none"
  /\ applied = <<"install">>
  /\ fw0 = BareFilter
  /\ Len(fw.chains["INPUT"]) = 6
  /\ Len(fw.chains["OUTPUT"]) = 3

-----------------------------------------------------------------------------
(* C9: the trusted generator adds to trusted_net one entry per trusted     *)
(* network, the global ones first and then the job's own, each list in its *)
(* own order; every add comes after the create of the set, and the         *)
(* uninstall list holds no add.                                            *)

IsSetOp(c, op, set) == c.type = "ipset" /\ c.op = op /\ c.name = set

ConfiguredGlobalTrusted ==
  IF Has(context.configuration, "global") THEN context.configuration.global.network.trustedItems ELSE <<>>

ConfiguredJobTrusted ==
  IF Has(context.jobConfiguration.network, "trustedItems")
  THEN context.jobConfiguration.network.trustedItems ELSE <<>>

C9_TrustedOrder ==
  (job = "prepare-netfilter" /\ promise.state = "resolved") =>
    LET adds == SelectSeq(InstallList, LAMBDA c : IsSetOp(c, "add", "trusted_net"))
        expected == ConfiguredGlobalTrusted \o ConfiguredJobTrusted
    IN /\ Len(adds) = Len(expected)
       /\ \A i \in 1..Len(adds) : adds[i].match[2] = expected[i].value
       /\ Count(InstallList, LAMBDA c : IsSetOp(c, "create", "trusted_net")) = 1
       /\ Before(Where(InstallList, LAMBDA c : IsSetOp(c, "create", "trusted_net")),
                 Where(InstallList, LAMBDA c : IsSetOp(c, "add", "trusted_net")))
       /\ Count(UninstallList, LAMBDA c : c.type = "ipset" /\ c.op = "add") = 0

C9_Witness ==
  /\ job = "prepare-netfilter"
  /\ promise.state = "resolved"
  /\ ConfiguredGlobalTrusted = <<NetworkItem("10.0.0.0/8"), NetworkItem("192.168.0.0/16")>>
  /\ ConfiguredJobTrusted = <<NetworkItem("10.1.0.0/16")>>
  /\ Count(InstallList, LAMBDA c : IsSetOp(c, "add", "trusted_net")) = 3

-----------------------------------------------------------------------------
(* C10: when the policy fails validation the execution is rejected with    *)
(* the validation error, no generator step has run and both lists are      *)
(* empty; no list holds a command unless validation succeeded first.       *)

\* policies the schemas must refuse
MissingPortNumber(cfg) ==
  Has(cfg, "network") /\ Has(cfg.network, "items")
    /\ \E i \in 1..Len(cfg.network.items) : ~Has(cfg.network.items[i], "portNumber")

Refused ==
  CASE job = "prepare-netfilter" ->
         \/ ~Has(context.jobConfiguration.network, "primaryInterfaces")
         \/ context.jobConfiguration.network.primaryInterfaces \in MalformedInterfaceLists \cup {<<>>}
         \/ ConfiguredJobTrusted = <<NetworkItem("172.17.0.2")>>
    [] job = "generic-service" ->
         ~Has(context.jobConfiguration, "network") \/ MissingPortNumber(context.jobConfiguration)
    [] job = "docker-dns-service" ->
         \/ ~Has(context.jobConfiguration, "network")
         \/ \E i \in 1..Len(context.jobConfiguration.network.items) :
              context.jobConfiguration.network.items[i].sourceIpAddress = "10.0.0.0/8"
    [] job = "sync-blacklist-ips" ->
         context.jobConfiguration # [database |-> [connectionString |-> "postgres://db/security"]]

ValidationSteps == {"validateConfiguration", "_validateConfiguration"}

NoCommands ==
  /\ context.commands.install = <<>>
  /\ context.commands.unInstall = <<>>
  /\ promise.securityCommands = <<>>

C10_ValidationGate ==
  /\ (Refused /\ stepIndex >= 1) =>
       /\ promise = Rejected(InvalidConfiguration)
       /\ StepsRun \in {<<"validateConfiguration">>, <<"_validateConfiguration">>}
       /\ NoCommands
  /\ (Has(context, "commands") /\ ~NoCommands) =>
       /\ ~Refused
       /\ stepIndex >= 2
       /\ steps[1] \in ValidationSteps
       /\ Has(context, "rawJobConfiguration")

C10_Witness ==
  /\ job = "generic-service"
  /\ MissingPortNumber(context.jobConfiguration)
  /\ Has(context, "configurationJob")
  /\ promise = Rejected(InvalidConfiguration)
  /\ NoCommands

-----------------------------------------------------------------------------
(* C11: in the install transcript of generic-service every network item    *)
(* gives the IN chain one ACCEPT rule per source network, in source order, *)
(* or one rule without a source when the source list is absent, null or    *)
(* empty; the rules of an item precede those of every later item; all of   *)
(* them lie after the two creates and before the two RETURN rules, which   *)
(* precede the two inserts into the services chains.                       *)

ItemSources(item) ==
  IF ~Has(item, "sourceNetworks") THEN <<>>
  ELSE IF item.sourceNetworks = Null THEN <<>> ELSE item.sourceNetworks

NoSource == "<none>"

ExpectedAccepts(items) ==
  Flatten([i \in 1..Len(items) |->
             IF Len(ItemSources(items[i])) = 0
             THEN << [item |-> i, source |-> NoSource] >>
             ELSE [j \in 1..Len(ItemSources(items[i])) |->
                     [item |-> i, source |-> ItemSources(items[i])[j]]]])

AcceptFor(c, chain, item, source) ==
  /\ c.op = "-A"
  /\ c.name = chain
  /\ IF source = NoSource
     THEN c.match = <<>> \/ c.match[1] # "-s"
     ELSE Len(c.match) >= 2 /\ SubSeq(c.match, 1, 2) = <<"-s", source>>
  /\ Len(c.match) >= 6
  /\ SubSeq(c.match, Len(c.match) - 5, Len(c.match))
       = <<"-p", item.protocol, "--sport", "1024:65535", "--dport", item.portNumber>>

-----------------------------------------------------------------------------
(* C12: once prepare-netfilter is installed, installing service jobs with  *)
(* distinct chain names one after another leaves, in IN_services_access_0  *)
(* and OUT_services_access_0, the jump to the service installed last at    *)
(* position 1, the jumps in the reverse of the order of installation, and  *)
(* all of them before the RETURN that ends the chain.  Stated as: after    *)
(* prepare-netfilter each chain holds its RETURN alone, and every such     *)
(* install puts its jump in front of the rules already there.              *)

ServicesChains == {"IN_services_access_0", "OUT_services_access_0"}

ReturnRule == JumpRule(<<>>, "RETURN")

\* prepare-netfilter alone has been installed
OnlyPrepared == job = "prepare-netfilter" /\ applied = <<"install">>

\* a service job with chains the host does not hold yet is being installed
NewServiceInstalled ==
  /\ job \in {"generic-service", "docker-dns-service"}
  /\ applied' = Append(applied, "install")
  /\ ServicesChains \subseteq DOMAIN fw.chains
  /\ ChainsCreated(promise.securityCommands) \cap DOMAIN fw.chains = {}

JumpPrepended ==
  LET in == promise.securityCommands[1].name
      out == promise.securityCommands[2].name
  IN /\ {in, out} \cap (ServicesChains \cup {"RETURN"}) = {}
     /\ fw'.chains["IN_services_access_0"]
          = <<JumpRule(<<>>, in)>> \o fw.chains["IN_services_access_0"]
     /\ fw'.chains["OUT_services_access_0"]
          = <<JumpRule(<<>>, out)>> \o fw.chains["OUT_services_access_0"]

C12_MostRecentFirst ==
  /\ [](OnlyPrepared => \A n \in ServicesChains : fw.chains[n] = <<ReturnRule>>)
  /\ [][NewServiceInstalled => JumpPrepended]_vars

C12_Witness ==
  /\ applied = <<"install", "install", "install">>
  /\ ServicesChains \subseteq DOMAIN fw.chains
  /\ fw.chains["IN_services_access_0"]
       = << JumpRule(<<>>, "IN_dns_resolver"), JumpRule(<<>>, "IN_https"), ReturnRule >>
  /\ fw.chains["OUT_services_access_0"]
       = << JumpRule(<<>>, "OUT_dns_resolver"), JumpRule(<<>>, "OUT_https"), ReturnRule >>

-----------------------------------------------------------------------------
(* C13: in the install transcript of docker-dns-service every mapping      *)
(* gives six commands in a row: NAT redirect tcp, NAT redirect udp,        *)
(* FORWARD accept tcp, FORWARD accept udp, DNS chain accept tcp, DNS chain *)
(* accept udp; the mappings follow the configuration order; a mapping      *)
(* without a source port uses port 53 in its NAT and DNS chain commands.   *)

\* the word that follows a flag in the match part of a rule
ArgAfter(match, flag) ==
  LET at == {i \in 1..(Len(match) - 1) : match[i] = flag}
  IN IF at = {} THEN "" ELSE match[(CHOOSE i \in at : \A j \in at : i <= j) + 1]

SourcePortOf(mapping) ==
  IF Has(mapping, "sourcePortNumber") THEN mapping.sourcePortNumber ELSE "53"

IsNat(c, mapping, proto) ==
  /\ c.op = "-I" /\ c.name = "PREROUTING" /\ c.pos = 1 /\ c.target = "DNAT"
  /\ ArgAfter(c.match, "-t") = "nat"
  /\ ArgAfter(c.match, "-i") = mapping.sourceLinkName
  /\ ArgAfter(c.match, "-p") = proto
  /\ ArgAfter(c.match, "-d") = mapping.sourceIpAddress
  /\ ArgAfter(c.match, "--dport") = SourcePortOf(mapping)

IsForward(c, mapping, proto) ==
  /\ c.op = "-I" /\ c.name = "FORWARD" /\ c.pos = 1 /\ c.target = "ACCEPT"
  /\ ArgAfter(c.match, "-p") = proto
  /\ ArgAfter(c.match, "--dport") = mapping.destinationPortNumber

IsDnsAccept(c, chain, mapping, proto) ==
  /\ c.op = "-A" /\ c.name = chain /\ c.target = "ACCEPT"
  /\ ArgAfter(c.match, "-p") = proto
  /\ ArgAfter(c.match, "-d") = mapping.sourceIpAddress
  /\ ArgAfter(c.match, "--dport") = SourcePortOf(mapping)

C13_SixPerMapping ==
  (job = "docker-dns-service" /\ InstallRun) =>
    LET L == InstallList
        mappings == context.rawJobConfiguration.network.items
    IN /\ Len(L) = 6 * Len(mappings) + 6
       /\ L[1].op = "-N" /\ L[2].op = "-N"
       /\ \A i \in 1..Len(mappings) :
            LET at == 2 + 6 * (i - 1) IN
            /\ IsNat(L[at + 1], mappings[i], "tcp")
            /\ IsNat(L[at + 2], mappings[i], "udp")
            /\ IsForward(L[at + 3], mappings[i], "tcp")
            /\ IsForward(L[at + 4], mappings[i], "udp")
            /\ IsDnsAccept(L[at + 5], L[1].name, mappings[i], "tcp")
            /\ IsDnsAccept(L[at + 6], L[1].name, mappings[i], "udp")

C13_Witness ==
  /\ job = "docker-dns-service"
  /\ InstallRun
  /\ Len(context.rawJobConfiguration.network.items) = 2
  /\ Has(context.rawJobConfiguration.network.items[1], "sourcePortNumber")
  /\ ~Has(context.rawJobConfiguration.network.items[2], "sourcePortNumber")
  /\ Len(InstallList) = 18
  /\ ArgAfter(InstallList[3].match, "--dport") = "5353"
  /\ ArgAfter(InstallList[9].match, "--dport") = "53"
  /\ ArgAfter(InstallList[13].match, "--dport") = "53"

-----------------------------------------------------------------------------
(* C14: for generic-service and docker-dns-service the chains named by the *)
(* commands of both transcripts are fixed by the job's policy alone: the   *)
(* chains derived from the policy's chainName when it gives one, otherwise *)
(* from the default (genericServiceName, dockerDnsService).                *)

PolicyChainName ==
  IF Has(context.rawJobConfiguration, "chainName") THEN context.rawJobConfiguration.chainName
  ELSE IF job = "generic-service" THEN "genericServiceName" ELSE "dockerDnsService"

PolicyChains ==
  IF job = "generic-service"
  THEN {"IN_" \o PolicyChainName, "OUT_" \o PolicyChainName}
  ELSE {"IN_dns_" \o PolicyChainName, "OUT_dns_" \o PolicyChainName}

\* the managed chains a list names: created, flushed, destroyed, filled or jumped to
ChainsNamed(cmds) ==
  {c.name : c \in {d \in Range(cmds) : d.type = "iptables-4" /\ d.op \in {"-N", "-F", "-X"}}}
  \cup {c.target : c \in {d \in Range(cmds) : d.type = "iptables-4" /\ d.name \in ServicesChains}}
  \cup {c.name : c \in {d \in Range(cmds) : d.type = "iptables-4" /\ d.op = "-A"}}

C14_ChainNameFromPolicy ==
  (job \in {"generic-service", "docker-dns-service"} /\ promise.state = "resolved") =>
    /\ ChainsNamed(InstallList) = PolicyChains
    /\ ChainsNamed(UninstallList) = PolicyChains

\* the part of C14 that holds: docker-dns-service alone
C14_DnsChainNameFromPolicy ==
  (job = "docker-dns-service" /\ promise.state = "resolved") =>
    /\ ChainsNamed(InstallList) = PolicyChains
    /\ ChainsNamed(UninstallList) = PolicyChains

\* generic-service run from the command line with a policy that names its chain
C14_Witness ==
  /\ job = "generic-service"
  /\ promise.state = "resolved"
  /\ context.rawJobConfiguration = [chainName |-> "web", network |-> [items |-> <<>>]]
  /\ context.configurationJob = [name |-> "generic-service", configuration |-> context.rawJobConfiguration]
  /\ ChainsNamed(InstallList) = {"IN_genericServiceName", "OUT_genericServiceName"}

-----------------------------------------------------------------------------
(* C15: when the query of sync-blacklist-ips succeeds with the entries     *)
(* e1..en, the install transcript is exactly n commands adding e1..en to   *)
(* block_net in the order returned, with no command creating a chain or a  *)
(* set, and the uninstall transcript is exactly one flush of block_net.    *)

AddToBlockNet(value) ==
  [type |-> "ipset", op |-> "add", name |-> "block_net", pos |-> 0,
   match |-> <<"-!", value>>, target |-> ""]

FlushBlockNet ==
  [type |-> "ipset", op |-> "flush", name |-> "block_net", pos |-> 0,
   match |-> <<"", "">>, target |-> ""]

\* the transcripts a finished execution holds
BlacklistTranscripts ==
  (job = "sync-blacklist-ips" /\ promise.state = "resolved") =>
    /\ \A i \in 1..Len(InstallList) :
         InstallList[i] = AddToBlockNet(InstallList[i].match[2])
    /\ UninstallList = <<FlushBlockNet>>
    /\ context.jobCommand.type = "install" => promise.securityCommands = InstallList
    /\ context.jobCommand.type = "uninstall" => promise.securityCommands = UninstallList

\* the transcripts the step leaves when the query answers with result
TranscriptsOf(result) ==
  FetchNetworksOk(result) =>
    /\ context'.commands.install = [i \in 1..Len(result) |-> AddToBlockNet(result[i].value)]
    /\ context'.commands.unInstall = <<FlushBlockNet>>

C15_BlacklistTranscripts ==
  /\ []BlacklistTranscripts
  /\ [][\A result \in QueryResults : TranscriptsOf(result)]_vars

C15_Witness ==
  /\ job = "sync-blacklist-ips"
  /\ promise = Resolved(<< AddToBlockNet("192.168.0.0/16"), AddToBlockNet("10.1.0.0/16") >>)
  /\ context.jobCommand.type = "install"
  /\ UninstallList = <<FlushBlockNet>>

-----------------------------------------------------------------------------
(* C16: executions are stateless and deterministic.  After any earlier     *)
(* executions on the same job and the same context object, the transcripts *)
(* of an execution are a function of its own direction, policy and global  *)
(* trusted networks, and for sync-blacklist-ips of the query result; so    *)
(* equal inputs give equal transcripts and no command of an earlier        *)
(* execution shows up again.                                               *)

\* what an execution is given besides the direction: the global configuration,
\* the policy as validated by this execution and, from the command line, the
\* job entry the policy was taken from
InputsOf(ctx) == [k \in DOMAIN ctx \cap {"configuration", "jobConfiguration", "configurationJob"} |-> ctx[k]]

JoinLists(lists) ==
  [install |-> Flatten([i \in 1..Len(lists) |-> lists[i].install]),
   unInstall |-> Flatten([i \in 1..Len(lists) |-> lists[i].unInstall])]

OwnTranscripts(j, direction, inputs) ==
  CASE j = "prepare-netfilter" ->
         IF direction = "install"
         THEN JoinLists(<< generateVitalAccessChain(inputs), generateBlockNetworkChain(inputs),
                           generateServiceAccessChain(inputs), generateTrustedNetworkChain(inputs),
                           generateRootAccessChains(inputs) >>)
         ELSE JoinLists(<< generateRootAccessChains(inputs), generateTrustedNetworkChain(inputs),
                           generateServiceAccessChain(inputs), generateBlockNetworkChain(inputs),
                           generateVitalAccessChain(inputs) >>)
    [] j = "generic-service" -> GenericGenerateRules(inputs)
    [] j = "docker-dns-service" -> DnsGenerateRules(inputs)

Stateless ==
  (job \in ServiceJobs /\ promise.state = "resolved") =>
    LET own == OwnTranscripts(job, ToLowerCase(context.jobCommand.type), InputsOf(context))
    IN /\ context.commands = own
       /\ promise.securityCommands \in {own.install, own.unInstall}

-----------------------------------------------------------------------------
(* C17: for every job, a direction token that is neither install nor       *)
(* uninstall makes the execution fail with the illegal argument error for  *)
(* an invalid command before the validation step or any generator step     *)
(* runs, and no transcript is returned.                                    *)

Executing == promise.state # "none"

UnknownDirection == ToLowerCase(context.jobCommand.type) \notin {"install", "uninstall"}

C17_InvalidDirection ==
  (Executing /\ UnknownDirection) =>
    /\ promise = Rejected(InvalidCommand)
    /\ stepIndex = 0
    /\ NoCommands

C17_Witness ==
  /\ job = "sync-blacklist-ips"
  /\ Executing
  /\ context.jobCommand.type = "reload"
  /\ promise = Rejected(InvalidCommand)
  /\ stepIndex = 0
  /\ queries = 0

-----------------------------------------------------------------------------
(* C18: for every job the steps run one after another; when a step fails   *)
(* no later step runs, the execution is rejected with exactly the error    *)
(* the step produced, and no transcript, complete or partial, is returned. *)

\* the error each step can fail with
ErrorOfStep(name) ==
  CASE name \in ValidationSteps -> InvalidConfiguration
    [] name = "_generateRules" -> TypeError
    [] name = "fetchNetworks" -> QueryError
    [] OTHER -> "no error"

\* steps known to have failed: the generic generator without a job entry in
\* the context, the query that left no list behind
GeneratorFailed ==
  /\ job = "generic-service" /\ Executing /\ stepIndex = 2
  /\ ~Has(context, "configurationJob")

QueryFailed ==
  /\ job = "sync-blacklist-ips" /\ Executing /\ stepIndex = 2
  /\ context.commands.unInstall = <<>>

FailureSurfaces ==
  /\ (promise.state = "rejected" /\ stepIndex >= 1) =>
       /\ promise.error = ErrorOfStep(steps[stepIndex])
       /\ promise.securityCommands = <<>>
  /\ GeneratorFailed => promise = Rejected(TypeError)
  /\ QueryFailed => promise = Rejected(QueryError)
  /\ promise.state = "resolved" => stepIndex = Len(steps)

OneStepAtATime ==
  /\ stepIndex' \in {stepIndex, stepIndex + 1, 0}
  /\ (stepIndex' = stepIndex + 1 => promise.state = "pending")
  /\ promise.state = "rejected" =>
       /\ stepIndex' # stepIndex + 1
       /\ promise' # promise => (stepIndex' = 0 /\ promise'.state \in {"pending", "rejected"})
       /\ context' # context => context'.commands = [install |-> <<>>, unInstall |-> <<>>]

C18_FirstFailureEnds ==
  /\ []FailureSurfaces
  /\ [][OneStepAtATime]_vars

C18_Witness ==
  /\ job = "sync-blacklist-ips"
  /\ promise = Rejected(QueryError)
  /\ stepIndex = 2
  /\ queries = 1
  /\ context.jobCommand.type = "install"

-----------------------------------------------------------------------------
(* C19: for every job a successful execution returns the install list      *)
(* alone when the direction is install and the uninstall list alone        *)
(* otherwise; the returned list never mixes commands of the two lists.     *)

C19_OneListReturned ==
  promise.state = "resolved" =>
    /\ context.jobCommand.type = "install" => promise.securityCommands = InstallList
    /\ context.jobCommand.type # "install" => promise.securityCommands = UninstallList

C19_Witness ==
  /\ promise.state = "resolved"
  /\ context.jobCommand.type = "uninstall"
  /\ InstallList # <<>>
  /\ UninstallList # <<>>
  /\ Range(InstallList) \cap Range(UninstallList) = {}
  /\ promise.securityCommands = UninstallList

-----------------------------------------------------------------------------
(* C20: in every execution of the blacklist job the database is queried at *)
(* most once and never when the validation fails; a failed query is not    *)
(* sent again, and its error ends the execution unchanged, in the same way *)
(* as a validation failure does.                                           *)

QueryBudget ==
  /\ job # "sync-blacklist-ips" => queries = 0
  /\ job = "sync-blacklist-ips" /\ Executing =>
       /\ queries <= 1
       /\ Refused => queries = 0
       /\ Refused /\ stepIndex >= 1 => promise = Rejected(InvalidConfiguration)
       /\ queries = 1 => stepIndex = 2 /\ ~Refused
       /\ promise.state = "rejected" /\ stepIndex = 2 =>
            promise = Rejected(QueryError) /\ queries = 1

\* a query is sent only by a pending execution that has sent none, and after
\* a rejection nothing moves until the next call of execute()
NoRetry ==
  /\ queries' > queries =>
       promise.state = "pending" /\ queries = 0 /\ queries' = 1 /\ stepIndex = 1
  /\ promise.state = "rejected" /\ promise.error = QueryError /\ promise' = promise =>
       UNCHANGED <<queries, stepIndex, context>>

C20_QueryOnce == []QueryBudget /\ [][NoRetry]_vars

C20_Witness ==
  /\ job = "sync-blacklist-ips"
  /\ ~Refused
  /\ queries = 1
  /\ promise = Rejected(QueryError)
  /\ NoCommands

-----------------------------------------------------------------------------
(* C21: every chain a job's lists name as the parent of an insert, append  *)
(* or delete, or as a jump target, is a built-in chain, a chain the same   *)
(* job's install list creates, or one of the seven chains prepare-netfilter *)
(* creates; the generic and DNS jobs wire into exactly the two services    *)
(* chains of prepare-netfilter.                                            *)

PreparedChains ==
  { "IN_vital_access_0", "OUT_vital_access_0", "IN_block_access_0",
    "IN_services_access_0", "OUT_services_access_0",
    "IN_trusted_access_0", "OUT_trusted_access_0" }

RuleCommands(cmds) == {c \in Range(cmds) : c.type = "iptables-4" /\ c.op \in {"-I", "-A", "-D"}}

\* the managed chains a list fills, empties by rule or jumps to
ChainsReferenced(cmds) ==
  ({c.name : c \in RuleCommands(cmds)} \cup {c.target : c \in RuleCommands(cmds)})
    \ (BuiltinChains \cup TerminalTargets)

ForeignChains == (ChainsReferenced(InstallList) \cup ChainsReferenced(UninstallList)) \ ChainsCreated(InstallList)

C21_ChainNaming ==
  Executing =>
    /\ ForeignChains \subseteq PreparedChains
    /\ (job = "prepare-netfilter" /\ promise.state = "resolved") =>
         ChainsCreated(InstallList) = PreparedChains /\ ForeignChains = {}
    /\ (job \in {"generic-service", "docker-dns-service"} /\ promise.state = "resolved") =>
         ForeignChains = {"IN_services_access_0", "OUT_services_access_0"}

C21_Witness ==
  /\ job = "docker-dns-service"
  /\ promise.state = "resolved"
  /\ ForeignChains = {"IN_services_access_0", "OUT_services_access_0"}
  /\ Cardinality(ChainsCreated(InstallList)) = 2
  /\ Cardinality(ChainsReferenced(InstallList)) = 4

-----------------------------------------------------------------------------
(* C22: the vital-access generator creates one IN/OUT chain pair whatever  *)
(* the number of primary interfaces, none included; the rules of each      *)
(* interface form one block, the blocks follow the configuration, each     *)
(* block runs DHCP, DNS, ICMP, NTP, root egress, established ingress, then *)
(* four loopback rules per network in network order; the two RETURN rules  *)
(* are the last commands the generator adds to the install list.           *)

VitalStepCalled ==
  stepIndex' = stepIndex + 1 /\ steps'[stepIndex'] = "generateVitalAccessChain"

\* what the step added to the install list
VitalAdded ==
  SubSeq(context'.commands.install, Len(context.commands.install) + 1, Len(context'.commands.install))

VitalCategories ==
  << "DHCP", "DHCP", "DNS", "DNS", "DNS", "DNS", "ICMP", "ICMP", "ICMP", "ICMP",
     "NTP", "NTP", "root", "established" >>

InterfaceOf(c) ==
  IF ArgAfter(c.match, "--in-interface") # "" THEN ArgAfter(c.match, "--in-interface")
  ELSE ArgAfter(c.match, "--out-interface")

Ports(c) == {ArgAfter(c.match, "--dport"), ArgAfter(c.match, "--sport")}

Category(c) ==
  CASE InterfaceOf(c) = "lo" -> "loopback"
    [] Ports(c) = {"67:68"} -> "DHCP"
    [] "53" \in Ports(c) -> "DNS"
    [] ArgAfter(c.match, "-p") = "icmp" -> "ICMP"
    [] "123" \in Ports(c) -> "NTP"
    [] ArgAfter(c.match, "--uid-owner") = "0" -> "root"
    [] ArgAfter(c.match, "--state") = "ESTABLISHED,RELATED" /\ ArgAfter(c.match, "-p") = "" -> "established"
    [] OTHER -> "other"

BlockLen(primaryInterface) == Len(VitalCategories) + 4 * Len(primaryInterface.networks)

RECURSIVE BlockStart(_, _)
BlockStart(primaryInterfaces, k) ==
  IF k = 1 THEN 3 ELSE BlockStart(primaryInterfaces, k - 1) + BlockLen(primaryInterfaces[k - 1])

VitalChains == {"IN_vital_access_0", "OUT_vital_access_0"}

VitalShape(A, primaryInterfaces) ==
  LET n == Len(primaryInterfaces)
      end == BlockStart(primaryInterfaces, n + 1)
  IN
  /\ Len(A) = end + 3
  /\ {i \in 1..Len(A) : A[i].op = "-N"} = {1, 2}
  /\ A[1].name = "IN_vital_access_0" /\ A[2].name = "OUT_vital_access_0"
  /\ \A i \in 3..Len(A) : A[i].type = "iptables-4" /\ A[i].op = "-A" /\ A[i].name \in VitalChains
  /\ \A k \in 1..n :
       LET start == BlockStart(primaryInterfaces, k)
           networks == primaryInterfaces[k].networks
       IN
       /\ \A i \in 1..Len(VitalCategories) :
            /\ Category(A[start + i - 1]) = VitalCategories[i]
            /\ InterfaceOf(A[start + i - 1]) = primaryInterfaces[k].name
       /\ \A m \in 1..Len(networks) : \A j \in 1..4 :
            LET c == A[start + Len(VitalCategories) + 4 * (m - 1) + j - 1] IN
            /\ Category(c) = "loopback"
            /\ ArgAfter(c.match, "-s") = networks[m].value
  /\ {i \in 1..Len(A) : A[i].target = "RETURN"} = {Len(A) - 1, Len(A)}
  /\ A[Len(A) - 1].name = "IN_vital_access_0" /\ A[Len(A)].name = "OUT_vital_access_0"
  /\ A[Len(A) - 1].match = <<>> /\ A[Len(A)].match = <<>>

C22_VitalBlocks ==
  [][VitalStepCalled =>
       VitalShape(VitalAdded, context.jobConfiguration.network.primaryInterfaces)]_vars

\* the generator has run on an interface list without entry
C22_WitnessNone ==
  /\ steps = <<"generateVitalAccessChain">>
  /\ context.jobConfiguration.network.primaryInterfaces = <<>>
  /\ Len(InstallList) = 6

C22_Witness ==
  /\ Len(steps) = 2
  /\ steps[2] = "generateVitalAccessChain"
  /\ context.jobConfiguration.network.primaryInterfaces = <<Eth1, Eth0>>
  /\ Len(InstallList) > 6 + BlockLen(Eth1) + BlockLen(Eth0)

-----------------------------------------------------------------------------
(* C23: on the command line, every failure to resolve the job name (the    *)
(* name is not in the job list of the selected configuration, or no module *)
(* of that name exists) ends the run with a job-not-found error, and no    *)
(* job is executed.                                                        *)

SelectedConfigurations ==
  Matching(ConfigurationFile.configurations, "id", context.usageArgs.configurationId)

SelectedJobs == SelectedConfigurations[1].jobs

NameNotListed ==
  SelectedConfigurations # <<>> /\ Matching(SelectedJobs, "name", context.usageArgs.jobName) = <<>>

NoSuchModule ==
  SelectedConfigurations # <<>> /\ ~NameNotListed /\ context.usageArgs.jobName \notin Jobs

RunEnded == workflow.state # "pending"

NoJobExecuted == job = "none" /\ promise = NoPromise /\ ~Has(context, "jobCommand") /\ applied = <<>>

\* the errors of the class NotFoundError
NotFoundErrors == {JobModuleNotFound}

\* the part that holds: the run fails at the lookup and executes nothing
C23_LookupFailureEndsRun ==
  (NameNotListed \/ NoSuchModule) =>
    /\ NoJobExecuted
    /\ workflow.step \in {"LoadConfig", "CreateJobInstance"}
    /\ RunEnded => workflow.state = "exit(1)"
    /\ (RunEnded /\ NoSuchModule) => workflow.error \in NotFoundErrors

C23_JobNotFound ==
  ((NameNotListed \/ NoSuchModule) /\ RunEnded) =>
    /\ workflow.state = "exit(1)"
    /\ workflow.error \in NotFoundErrors
    /\ NoJobExecuted

C23_Witness ==
  /\ NameNotListed
  /\ workflow.state = "exit(1)"
  /\ workflow.error = JobNotConfigured
  /\ NoJobExecuted

-----------------------------------------------------------------------------
(* C24: for every job and every direction token the job accepts, the list  *)
(* returned matches the direction the steps were chosen by: a token        *)
(* accepted as install (the test ignores case) returns the install list, a *)
(* token accepted as uninstall returns the uninstall list.                 *)

AcceptedAs(direction) ==
  promise.state = "resolved" /\ ToLowerCase(context.jobCommand.type) = direction

C24_ListMatchesDirection ==
  /\ AcceptedAs("install") => promise.securityCommands = InstallList
  /\ AcceptedAs("uninstall") => promise.securityCommands = UninstallList

\* the part that holds: the uninstall tokens, whatever their case
C24_UninstallTokens ==
  AcceptedAs("uninstall") => promise.securityCommands = UninstallList

C24_Witness ==
  /\ AcceptedAs("install")
  /\ context.jobCommand.type = "INSTALL"
  /\ job = "prepare-netfilter"
  /\ steps = PrepareSteps("install")
  /\ promise.securityCommands = UninstallList
  /\ InstallList # UninstallList

-----------------------------------------------------------------------------
(* C25: in prepare-netfilter the install transcript creates each set       *)
(* (block_net, trusted_net) before any add to it and before any rule that  *)
(* matches on it; the uninstall transcript destroys each set only after    *)
(* the INPUT link matching on it is deleted and every chain holding a rule *)
(* matching on it is flushed; so while either transcript is applied no     *)
(* rule refers to a set that does not exist.                               *)

ManagedSets == {"block_net", "trusted_net"}

MatchesSet(c, set) == c.type = "iptables-4" /\ set \in RuleSets(Rule(c))

InstallSetOrder(L) ==
  \A set \in ManagedSets :
    LET creates == Where(L, LAMBDA c : IsSetOp(c, "create", set)) IN
    /\ Cardinality(creates) = 1
    /\ Where(L, LAMBDA c : MatchesSet(c, set)) # {}
    /\ Before(creates, Where(L, LAMBDA c : IsSetOp(c, "add", set)))
    /\ Before(creates, Where(L, LAMBDA c : MatchesSet(c, set)))

\* the command of U that takes the rule of install command c away: the delete
\* of a link in a built-in chain, the flush of a chain of the job
Removals(U, c) ==
  IF c.name \in BuiltinChains
  THEN Where(U, LAMBDA d : IsIptables(d, {"-D"}, c.name) /\ Rule(d) = Rule(c))
  ELSE Where(U, LAMBDA d : IsIptables(d, {"-F"}, c.name))

UninstallSetOrder(U, L) ==
  \A set \in ManagedSets :
    LET destroys == Where(U, LAMBDA c : IsSetOp(c, "destroy", set)) IN
    /\ Cardinality(destroys) = 1
    /\ \A i \in Where(L, LAMBDA c : MatchesSet(c, set)) :
         /\ Removals(U, L[i]) # {}
         /\ Before(Removals(U, L[i]), destroys)

\* the filter refuses the command because of a set: a rule on a set that
\* does not exist, an add to such a set, the destroy of a set in use
SetFault(f, c) ==
  \/ c.type = "iptables-4" /\ c.op \in {"-A", "-I"} /\ ~(RuleSets(Rule(c)) \subseteq DOMAIN f.sets)
  \/ c.type = "ipset" /\ c.op = "add" /\ c.name \notin DOMAIN f.sets
  \/ c.type = "ipset" /\ c.op = "destroy" /\ c.name \in DOMAIN f.sets /\ SetReferenced(f, c.name)

\* some rule of the filter matches on a set the filter does not hold
DanglingSet(f) == \E set \in ManagedSets : set \notin DOMAIN f.sets /\ SetReferenced(f, set)

RECURSIVE NoSetFaultFrom(_, _, _)
NoSetFaultFrom(f, cmds, i) ==
  IF i > Len(cmds) THEN ~DanglingSet(f)
  ELSE LET g == ApplyCommand(f, cmds[i]) IN
       /\ ~DanglingSet(f)
       /\ ~SetFault(f, cmds[i])
       /\ IF g = f THEN NoSetFaultFrom(f, cmds, i + 1) ELSE NoSetFaultFrom(g, cmds, i + 1)

FirstInstall == context.jobCommand.type = "install" /\ applied = <<>>
UninstallAfterInstall == context.jobCommand.type = "uninstall" /\ applied = <<"install">>

C25_SetLifecycle ==
  (job = "prepare-netfilter" /\ promise.state = "resolved") =>
    /\ context.jobCommand.type = "install" => InstallSetOrder(promise.securityCommands)
    /\ context.jobCommand.type = "uninstall" => UninstallSetOrder(promise.securityCommands, InstallList)
    /\ (FirstInstall \/ UninstallAfterInstall) => NoSetFaultFrom(fw, promise.securityCommands, 1)
    /\ FirstInstall => ManagedSets \subseteq DOMAIN ApplyAll(fw, promise.securityCommands).sets
    /\ UninstallAfterInstall => ManagedSets \cap DOMAIN ApplyAll(fw, promise.securityCommands).sets = {}

C25_Witness ==
  /\ job = "prepare-netfilter"
  /\ promise.state = "resolved"
  /\ UninstallAfterInstall
  /\ ManagedSets \subseteq DOMAIN fw.sets
  /\ SetReferenced(fw, "block_net") /\ SetReferenced(fw, "trusted_net")
  /\ ManagedSets \cap DOMAIN ApplyAll(fw, promise.securityCommands).sets = {}

-----------------------------------------------------------------------------
(* C26: in docker-dns-service, whenever the policy passes validation,      *)
(* every NAT and FORWARD command of the install and of the uninstall list  *)
(* carries the destination IP address of its mapping, a concrete address,  *)
(* never a null or missing value.                                          *)

DnsGenerated == job = "docker-dns-service" /\ promise.state = "resolved"

ConcreteDestination(mapping) ==
  Has(mapping, "destinationIpAddress") /\ mapping.destinationIpAddress # Null

\* c redirects or forwards to the destination of the mapping
ToDestinationOf(c, mapping) ==
  /\ ConcreteDestination(mapping)
  /\ c.name = "PREROUTING" =>
       ArgAfter(c.match, "--to") = mapping.destinationIpAddress \o ":" \o mapping.destinationPortNumber
  /\ c.name = "FORWARD" => ArgAfter(c.match, "-d") = mapping.destinationIpAddress

C26_DestinationConcrete ==
  DnsGenerated =>
    LET mappings == context.rawJobConfiguration.network.items IN
    /\ Len(InstallList) = 6 * Len(mappings) + 6
    /\ Len(UninstallList) = 4 * Len(mappings) + 6
    /\ \A i \in 1..Len(mappings) : \A k \in 1..4 :
         /\ InstallList[2 + 6 * (i - 1) + k].name \in {"PREROUTING", "FORWARD"}
         /\ UninstallList[6 + 4 * (i - 1) + k].name \in {"PREROUTING", "FORWARD"}
         /\ ToDestinationOf(InstallList[2 + 6 * (i - 1) + k], mappings[i])
         /\ ToDestinationOf(UninstallList[6 + 4 * (i - 1) + k], mappings[i])

\* the part that holds: the mappings that give an address
C26_GivenDestinationKept ==
  DnsGenerated =>
    LET mappings == context.rawJobConfiguration.network.items IN
    \A i \in 1..Len(mappings) : \A k \in 1..4 :
      ConcreteDestination(mappings[i]) =>
        /\ ToDestinationOf(InstallList[2 + 6 * (i - 1) + k], mappings[i])
        /\ ToDestinationOf(UninstallList[6 + 4 * (i - 1) + k], mappings[i])

C26_Witness ==
  /\ DnsGenerated
  /\ DnsSchemaValid(context.rawJobConfiguration)
  /\ Len(context.rawJobConfiguration.network.items) = 1
  /\ context.rawJobConfiguration.network.items[1].destinationIpAddress = Null
  /\ ArgAfter(InstallList[3].match, "--to") = "null:53"
  /\ ArgAfter(InstallList[5].match, "-d") = "null"
  /\ ArgAfter(UninstallList[9].match, "-d") = "null"

-----------------------------------------------------------------------------
(* C27: on the command line, whenever the job execution succeeds and the   *)
(* apply option is set, the workflow reaches the Apply step and executes   *)
(* the script, with or without the print option; every step settles, so    *)
(* that the step after it can start.                                       *)

JobSucceeded == Has(context, "jobResponse")

ScriptExecuted == applied = <<context.usageArgs.action>> /\ workflow.step = "done"

\* the chain waits on no step that can still settle: the run resolved, it
\* exited on an error, or a step returned without settling its promise
WorkflowStopped == workflow.state \in {"resolved", "exit(1)", "unsettled"}

C27_ApplyReached ==
  WorkflowStopped =>
    /\ workflow.state # "unsettled"
    /\ (JobSucceeded /\ context.usageArgs.apply) => ScriptExecuted

\* the part that holds: with both options set the script is executed
C27_ApplyAfterPrint ==
  (WorkflowStopped /\ JobSucceeded /\ context.usageArgs.apply /\ context.usageArgs.printRules) =>
    ScriptExecuted

C27_Witness ==
  /\ JobSucceeded
  /\ context.usageArgs.apply
  /\ ~context.usageArgs.printRules
  /\ workflow.step = "Print"
  /\ workflow.state = "unsettled"
  /\ WorkflowStopped
  /\ applied = <<>>

-----------------------------------------------------------------------------
(* C28: the uninstall result of sync-blacklist-ips does not depend on the  *)
(* database: whatever the query brings back, any sequence of entries or a  *)
(* failure, an uninstall execution with a valid policy succeeds and        *)
(* returns exactly the one command that flushes block_net.                 *)

BlacklistUninstallSettled ==
  /\ job = "sync-blacklist-ips"
  /\ promise.state \in {"resolved", "rejected"}
  /\ ~Refused
  /\ ToLowerCase(context.jobCommand.type) = "uninstall"

C28_UninstallIndependent ==
  BlacklistUninstallSettled => promise = Resolved(<<FlushBlockNet>>)

\* the part that holds: whatever entries a successful query brings back
C28_UninstallAfterQuery ==
  (BlacklistUninstallSettled /\ promise.state = "resolved") =>
    promise.securityCommands = <<FlushBlockNet>> /\ queries = 1

C28_Witness ==
  /\ BlacklistUninstallSettled
  /\ context.jobCommand.type = "uninstall"
  /\ queries = 1
  /\ promise = Rejected(QueryError)

====
